---- MODULE Spec2Model ----
(***************************************************************************)
(* Resume parser backend (FastAPI + MongoDB): the upload handler with its  *)
(* field normalizer (app/routers/parser.py) and the analytics handlers     *)
(* (app/routers/analytics.py).                                             *)
(*                                                                         *)
(* Python values are tagged records: Str(s) with s a sequence of           *)
(* one-character strings, Null (None), Num(n), List(l), Dict(d) with d a   *)
(* function from key strings to values.  A raised exception is Raised.     *)
(***************************************************************************)
EXTENDS Integers, Sequences, FiniteSets, TLC

(***************************************************************************)
(* Python values                                                           *)
(***************************************************************************)
Null == [null |-> TRUE]
Str(s) == [str |-> s]
Num(n) == [num |-> n]
List(l) == [list |-> l]
Dict(d) == [dict |-> d]
EmptyDict == <<>>
EmptyStr == Str(<<>>)

IsStr(v) == "str" \in DOMAIN v
IsNull(v) == "null" \in DOMAIN v
IsNum(v) == "num" \in DOMAIN v
IsList(v) == "list" \in DOMAIN v
IsDict(v) == "dict" \in DOMAIN v

\* bool(v): None, 0, "", [] and {} are falsy
Truthy(v) ==
    IF IsStr(v) THEN v.str # <<>>
    ELSE IF IsNum(v) THEN v.num # 0
    ELSE IF IsList(v) THEN v.list # <<>>
    ELSE IF IsDict(v) THEN DOMAIN v.dict # {}
    ELSE FALSE

\* an exception escaping the normalization steps
Raised == [raised |-> TRUE]
Ok(v) == [raised |-> FALSE, v |-> v]

\* dict.setdefault(k, default) for each k of keys: present keys keep their value
SetDefaults(d, keys, default) == d @@ [k \in keys |-> default]

\* dict.get(k, default)
Get(d, k, default) == IF k \in DOMAIN d THEN d[k] ELSE default

(***************************************************************************)
(* Python string methods and the regular expressions, on character         *)
(* sequences                                                               *)
(***************************************************************************)
\* str.isspace characters (also the regex class \s)
Whitespace == {" ", "\t", "\n", "\r", "\f"}
\* the regex class \d (ASCII part)
Digits == {"0", "1", "2", "3", "4", "5", "6", "7", "8", "9"}

UpperCase == <<"A","B","C","D","E","F","G","H","I","J","K","L","M",
               "N","O","P","Q","R","S","T","U","V","W","X","Y","Z">>
LowerCase == <<"a","b","c","d","e","f","g","h","i","j","k","l","m",
               "n","o","p","q","r","s","t","u","v","w","x","y","z">>

LowerChar(c) ==
    IF \E i \in 1..26 : UpperCase[i] = c
    THEN LowerCase[CHOOSE i \in 1..26 : UpperCase[i] = c]
    ELSE c

\* str.lower()
Lower(s) == [i \in 1..Len(s) |-> LowerChar(s[i])]

\* str.startswith(p)
StartsWith(s, p) == Len(s) >= Len(p) /\ SubSeq(s, 1, Len(p)) = p

\* str.endswith(p)
EndsWith(s, p) == Len(s) >= Len(p) /\ SubSeq(s, Len(s) - Len(p) + 1, Len(s)) = p

\* p in s
Contains(s, p) == \E i \in 0..(Len(s) - Len(p)) : SubSeq(s, i + 1, i + Len(p)) = p

\* str.replace(p, ""): leftmost non-overlapping occurrences removed
RECURSIVE Remove(_, _)
Remove(s, p) ==
    IF Len(s) < Len(p) \/ p = <<>> THEN s
    ELSE IF StartsWith(s, p) THEN Remove(SubSeq(s, Len(p) + 1, Len(s)), p)
    ELSE <<Head(s)>> \o Remove(Tail(s), p)

RECURSIVE LStrip(_)
LStrip(s) == IF s # <<>> /\ Head(s) \in Whitespace THEN LStrip(Tail(s)) ELSE s

RECURSIVE RStrip(_)
RStrip(s) ==
    IF s # <<>> /\ s[Len(s)] \in Whitespace THEN RStrip(SubSeq(s, 1, Len(s) - 1)) ELSE s

\* str.strip()
Strip(s) == RStrip(LStrip(s))

\* every character of s[a..b] satisfies the regex class [^@\s]
NotAtNorSpace(s, a, b) == \A k \in a..b : s[k] # "@" /\ s[k] \notin Whitespace

\* re.match(r"[^@\s]+@[^@\s]+\.[^@\s]+", s): the pattern is anchored at the
\* start only, so it succeeds when some PREFIX of s has the shape
EmailReMatch(s) ==
    \E i \in 1..Len(s), j \in 1..Len(s) :
        /\ i + 2 <= j /\ j + 1 <= Len(s)
        /\ NotAtNorSpace(s, 1, i - 1) /\ i >= 2
        /\ s[i] = "@"
        /\ NotAtNorSpace(s, i + 1, j - 1)
        /\ s[j] = "."
        /\ NotAtNorSpace(s, j + 1, j + 1)

\* re.fullmatch(r"\d{10}", s)
PhoneDigits == 10
PhoneFullMatch(s) == Len(s) = PhoneDigits /\ \A k \in 1..Len(s) : s[k] \in Digits

\* re.sub(r"^\+91", "", s)
CountryCode == <<"+", "9", "1">>
SubCountryCode(s) ==
    IF StartsWith(s, CountryCode) THEN SubSeq(s, Len(CountryCode) + 1, Len(s)) ELSE s

\* re.fullmatch(r"\d{2}-\d{2}-\d{4}", s)
DobFullMatch(s) ==
    /\ Len(s) = 10
    /\ \A k \in {1, 2, 4, 5, 7, 8, 9, 10} : s[k] \in Digits
    /\ s[3] = "-" /\ s[6] = "-"

(***************************************************************************)
(* parse_resume: the normalization steps (parser.py lines 209-273)         *)
(***************************************************************************)
PersonalFields ==
    {"full_name", "email", "phone", "location", "linkedin", "github", "date_of_birth"}
SummaryScalarFields == {"summary"}
SummaryListFields == {"skills", "languages"}
EducationFields ==
    {"degree", "college_university", "stream_field", "year_period", "grade_cgpa_percentage"}
ExperienceFields == {"company", "role", "period", "description"}
ProjectFields ==
    {"project_title", "technologies_course_semester", "description",
     "url", "start_end_date", "outcome_impact", "team_size", "budget_or_size"}
CertificateFields == {"file_name", "file_path", "uploaded_at"}
EmptyCertificate == Dict([k \in CertificateFields |-> EmptyStr])

HTTP == <<"h", "t", "t", "p">>
HTTPS_PREFIX == <<"h", "t", "t", "p", "s", ":", "/", "/">>
SCHEME_SEP == <<":", "/", "/">>
LINKEDIN_COM == <<"l", "i", "n", "k", "e", "d", "i", "n", ".", "c", "o", "m">>
GITHUB_COM == <<"g", "i", "t", "h", "u", "b", ".", "c", "o", "m">>

\* lines 214-216: the email is cleared unless re.match finds the pattern;
\* a truthy non-string makes re.match raise TypeError
ValidateEmail(pi) ==
    LET e == pi["email"] IN
    IF ~Truthy(e) THEN Ok(pi)
    ELSE IF ~IsStr(e) THEN Raised
    ELSE IF ~EmailReMatch(e.str) THEN Ok([pi EXCEPT !["email"] = EmptyStr])
    ELSE Ok(pi)

\* a variant of lines 220-221 without the two replace calls for parentheses
CleanPhoneKeepingParens(s) ==
    SubCountryCode(Remove(Remove(s, <<" ">>), <<"-">>))

\* lines 220-221: the four str.replace calls, then the re.sub
CleanPhone(s) ==
    SubCountryCode(Remove(Remove(Remove(Remove(s, <<" ">>), <<"-">>), <<"(">>), <<")">>))

\* lines 218-225: a truthy non-string has no .replace (AttributeError)
ValidatePhone(pi) ==
    LET p == pi["phone"] IN
    IF ~Truthy(p) THEN Ok(pi)
    ELSE IF ~IsStr(p) THEN Raised
    ELSE LET cleaned == CleanPhone(p.str) IN
         IF PhoneFullMatch(cleaned)
         THEN Ok([pi EXCEPT !["phone"] = Str(cleaned)])
         ELSE Ok([pi EXCEPT !["phone"] = EmptyStr])

\* lines 227-229
ValidateDob(pi) ==
    LET d == pi["date_of_birth"] IN
    IF ~Truthy(d) THEN Ok(pi)
    ELSE IF ~IsStr(d) THEN Raised
    ELSE IF ~DobFullMatch(d.str) THEN Ok([pi EXCEPT !["date_of_birth"] = EmptyStr])
    ELSE Ok(pi)

\* lines 242-243: a falsy value is stored as ""
StoreEmptyString(pi, field) ==
    IF ~Truthy(pi[field]) THEN [pi EXCEPT ![field] = EmptyStr] ELSE pi

\* lines 234-240 for the stripped value val
RepairLink(pi, field, links, val) ==
    IF val = <<>> /\ Get(links, field, <<>>) # <<>>
    THEN [pi EXCEPT ![field] = Str(links[field])]
    ELSE IF val # <<>> /\ ~StartsWith(val, HTTP)
    THEN IF Contains(Lower(val), LINKEDIN_COM)
         THEN [pi EXCEPT ![field] = Str(HTTPS_PREFIX \o Remove(val, SCHEME_SEP))]
         ELSE IF Contains(Lower(val), GITHUB_COM)
         THEN [pi EXCEPT ![field] = Str(HTTPS_PREFIX \o Remove(val, SCHEME_SEP))]
         ELSE pi
    ELSE pi

\* lines 234-240 without the .replace("://", "") of lines 238 and 240
RepairLinkKeepingScheme(pi, field, links, val) ==
    IF val = <<>> /\ Get(links, field, <<>>) # <<>>
    THEN [pi EXCEPT ![field] = Str(links[field])]
    ELSE IF val # <<>> /\ ~StartsWith(val, HTTP)
            /\ (Contains(Lower(val), LINKEDIN_COM) \/ Contains(Lower(val), GITHUB_COM))
    THEN [pi EXCEPT ![field] = Str(HTTPS_PREFIX \o val)]
    ELSE pi

\* a variant of lines 233-243 that prefixes "https://" to the value as it is
FixLinkKeepingScheme(pi, field, links) ==
    IF ~IsStr(Get(pi, field, EmptyStr)) THEN Raised
    ELSE Ok(StoreEmptyString(
                RepairLinkKeepingScheme(pi, field, links, Strip(Get(pi, field, EmptyStr).str)),
                field))

\* lines 233-243, one iteration of the loop for `field`; links is the mapping
\* returned by extract_text_from_resume (string values)
FixLink(pi, field, links) ==
    IF ~IsStr(Get(pi, field, EmptyStr)) THEN Raised          \* None.strip() and the like
    ELSE Ok(StoreEmptyString(RepairLink(pi, field, links, Strip(Get(pi, field, EmptyStr).str)),
                             field))

\* the statements of lines 214-243 in order
PersonalSteps == <<"email", "phone", "date_of_birth", "linkedin", "github">>

PersonalStep(step, pi, links) ==
    CASE step = "email" -> ValidateEmail(pi)
      [] step = "phone" -> ValidatePhone(pi)
      [] step = "date_of_birth" -> ValidateDob(pi)
      [] step = "linkedin" -> FixLink(pi, "linkedin", links)
      [] step = "github" -> FixLink(pi, "github", links)

\* the steps run in order on pi; the first one that raises ends the run
RECURSIVE RunPersonalSteps(_, _, _)
RunPersonalSteps(steps, r, links) ==
    IF steps = <<>> \/ r.raised THEN r
    ELSE RunPersonalSteps(Tail(steps), PersonalStep(Head(steps), r.v, links), links)

\* a mapping that came out of the steps, as a value
AsDict(r) == IF r.raised THEN Raised ELSE Ok(Dict(r.v))

\* lines 209-243
NormalizePersonal(section, links) ==
    IF ~IsDict(section) THEN Raised     \* no .setdefault on None, str, list, number
    ELSE AsDict(RunPersonalSteps(PersonalSteps,
                                 Ok(SetDefaults(section.dict, PersonalFields, EmptyStr)),
                                 links))

\* lines 245-249
NormalizeSummary(section) ==
    IF ~IsDict(section) THEN Raised
    ELSE Ok(Dict(SetDefaults(SetDefaults(section.dict, SummaryScalarFields, EmptyStr),
                             SummaryListFields, List(<<>>))))

\* lines 251-257: `for e in section: e.setdefault(field, "")`.  Iterating None
\* or a number raises TypeError; iterating a non-empty string or mapping
\* yields strings, which have no .setdefault; so does a non-mapping list entry.
NormalizeEntries(section, fields) ==
    IF IsNull(section) \/ IsNum(section) THEN Raised
    ELSE IF IsStr(section) \/ IsDict(section)
    THEN IF Truthy(section) THEN Raised ELSE Ok(section)
    ELSE IF \E i \in 1..Len(section.list) : ~IsDict(section.list[i]) THEN Raised
    ELSE Ok(List([i \in 1..Len(section.list) |->
                    Dict(SetDefaults(section.list[i].dict, fields, EmptyStr))]))

\* lines 259-269, the body of the loop for one project
NormalizeProject(prj) ==
    SetDefaults(SetDefaults(SetDefaults(prj, ProjectFields, EmptyStr),
                            {"key_activities"}, List(<<>>)),
                {"certificate"}, EmptyCertificate)

\* lines 259-269
NormalizeProjects(section) ==
    IF IsNull(section) \/ IsNum(section) THEN Raised
    ELSE IF IsStr(section) \/ IsDict(section)
    THEN IF Truthy(section) THEN Raised ELSE Ok(section)
    ELSE IF \E i \in 1..Len(section.list) : ~IsDict(section.list[i]) THEN Raised
    ELSE Ok(List([i \in 1..Len(section.list) |->
                    Dict(NormalizeProject(section.list[i].dict))]))

\* the sections normalized by lines 209-269, in order
SectionSteps ==
    <<"personal_information", "professional_summary", "education", "experience", "projects">>

\* extracted_data.setdefault(step, default) and the statements on what it
\* returns: the normalized section, or Raised
SectionStep(step, extracted_data, links) ==
    CASE step = "personal_information" ->
            NormalizePersonal(Get(extracted_data, step, Dict(EmptyDict)), links)
      [] step = "professional_summary" ->
            NormalizeSummary(Get(extracted_data, step, Dict(EmptyDict)))
      [] step = "education" ->
            NormalizeEntries(Get(extracted_data, step, List(<<>>)), EducationFields)
      [] step = "experience" ->
            NormalizeEntries(Get(extracted_data, step, List(<<>>)), ExperienceFields)
      [] step = "projects" ->
            NormalizeProjects(Get(extracted_data, step, List(<<>>)))

\* extracted_data with the section of the step as the step left it
WithSection(extracted_data, step, r) ==
    IF r.raised THEN Raised
    ELSE Ok([k \in (DOMAIN extracted_data) \cup {step} |->
                IF k = step THEN r.v ELSE extracted_data[k]])

\* the steps run in order; the first one that raises ends the run
RECURSIVE RunSectionSteps(_, _, _)
RunSectionSteps(steps, r, links) ==
    IF steps = <<>> \/ r.raised THEN r
    ELSE RunSectionSteps(Tail(steps),
                         WithSection(r.v, Head(steps), SectionStep(Head(steps), r.v, links)),
                         links)

\* lines 271-273
TrailingDefaults(r) ==
    IF r.raised THEN Raised
    ELSE Ok(SetDefaults(r.v, {"relevant_coursework", "certifications", "extracurricular_hobbies"},
                        List(<<>>)))

\* lines 209-273: extracted_data after the normalization steps, or Raised
Normalize(extracted_data, links) ==
    TrailingDefaults(RunSectionSteps(SectionSteps, Ok(extracted_data), links))


(***************************************************************************)
(* State                                                                   *)
(***************************************************************************)
VARIABLES
    collection,     \* the resumes collection: sequence of stored documents
    request,        \* the request being served
    response,       \* the handler's response, NoResponse while pending
    renormalized,   \* the normalization steps applied to the stored record again
    now,            \* datetime.utcnow(), in stamps (see StampsPerDay)
    users,          \* the users collection: sequence of stored accounts
    session,        \* request.session of the client: the content of its cookie
    register_calls, \* the register calls being served, one per worker thread
    last_login,     \* history: the email of the client's latest successful
                    \* login that no logout followed, NoLogin when there is none
    disk,           \* the files under uploads/certificates
    active_connections, \* manager.active_connections: the list of WebSockets
    sockets,        \* each WebSocket's state: of the client's end and of its handler
    certificate_calls,  \* the upload_project_certificate calls being served, one
                    \* per worker thread
    applied         \* history: the update_one calls of certificate_calls, in the
                    \* order the store applied them

\* the state of the accounts, the session and the certificate directory
service == <<users, session, register_calls, last_login, disk>>

\* the state of the live-update channel and of the concurrent certificate
\* uploads
live == <<active_connections, sockets, certificate_calls, applied>>

vars == <<collection, request, response, renormalized, now, service, live>>

\* the worker threads that serve register calls
Threads == {"t1", "t2"}
Idle == [pc |-> "idle", status |-> 0]
NoLogin == [login |-> FALSE]

\* no account, no session, no register call, no certificate file
ServiceIdle ==
    /\ users = <<>>
    /\ session = EmptyDict
    /\ register_calls = [t \in Threads |-> Idle]
    /\ last_login = NoLogin
    /\ disk = {}

\* the WebSockets the server can be asked to open
MaxSockets == 3
Sockets == 1..MaxSockets

\* no WebSocket opened, no certificate upload under way
LiveIdle ==
    /\ active_connections = <<>>
    /\ sockets = [w \in Sockets |-> "unopened"]
    /\ certificate_calls = [t \in Threads |-> Idle]
    /\ applied = <<>>

NoResponse == [status |-> 0]
NotRun == [run |-> FALSE]
HttpError(code) == [status |-> code]

(***************************************************************************)
(* Upload: file type, text and link extraction, LLM adapter                *)
(***************************************************************************)
PDF_TYPE == "application/pdf"
DOCX_TYPES ==
    {"application/vnd.openxmlformats-officedocument.wordprocessingml.document",
     "application/msword"}
\* the content types of the model that start with "text/"
TEXT_TYPES == {"text/plain", "text/markdown"}

DOT_PDF == <<".", "p", "d", "f">>
DOT_DOCX == <<".", "d", "o", "c", "x">>
DOT_DOC == <<".", "d", "o", "c">>
DOT_TXT == <<".", "t", "x", "t">>
FILE_LITERAL == <<"f", "i", "l", "e">>

\* parser.py determine_file_type; "raise400" is the HTTPException of line 68
determine_file_type(filename, content_type) ==
    LET clean_filename == Lower(Strip(filename)) IN
    IF content_type = PDF_TYPE THEN "pdf"
    ELSE IF content_type \in DOCX_TYPES THEN "docx"
    ELSE IF content_type \in TEXT_TYPES THEN "txt"
    ELSE IF filename # <<>> /\ Contains(filename, <<".">>) /\ EndsWith(clean_filename, DOT_PDF)
    THEN "pdf"
    ELSE IF filename # <<>> /\ Contains(filename, <<".">>)
            /\ (EndsWith(clean_filename, DOT_DOCX) \/ EndsWith(clean_filename, DOT_DOC))
    THEN "docx"
    ELSE IF filename # <<>> /\ Contains(filename, <<".">>) /\ EndsWith(clean_filename, DOT_TXT)
    THEN "txt"
    ELSE IF filename = <<>> \/ filename = FILE_LITERAL THEN "raise400"
    ELSE "unknown"

NoLinks == [linkedin |-> <<>>, github |-> <<>>]

\* utils.py extract_links_from_pdf: the last matching uri wins; a uri holding
\* "linkedin.com" never reaches the github branch
RECURSIVE extract_links_from_pdf(_)
extract_links_from_pdf(uris) ==
    IF uris = <<>> THEN NoLinks
    ELSE LET before == extract_links_from_pdf(SubSeq(uris, 1, Len(uris) - 1))
             uri == uris[Len(uris)]
         IN IF Contains(uri, LINKEDIN_COM) THEN [before EXCEPT !.linkedin = uri]
            ELSE IF Contains(uri, GITHUB_COM) THEN [before EXCEPT !.github = uri]
            ELSE before

\* a variant of lines 94-99 that reads a file of unknown type as text
extract_text_of_any_type(filename, content_type, file) ==
    LET file_type == determine_file_type(filename, content_type) IN
    IF file_type = "raise400" THEN [status |-> 400]
    ELSE IF file_type \in {"pdf", "docx"}
    THEN IF file.unreadable THEN [status |-> 400]
         ELSE [status |-> 200, text |-> file.text_len,
               links |-> IF file_type = "pdf" THEN extract_links_from_pdf(file.uris)
                         ELSE NoLinks]
    ELSE [status |-> 200, text |-> file.text_len, links |-> NoLinks]

\* parser.py extract_text_from_resume.  file.unreadable: the document parser
\* throws on the bytes; file.text_len: length of the extracted, stripped text.
\* Every exception inside the try block, the HTTPException of line 96
\* included, leaves as a 400.
extract_text_from_resume(filename, content_type, file) ==
    LET file_type == determine_file_type(filename, content_type) IN
    IF file_type = "raise400" THEN [status |-> 400]
    ELSE IF file_type = "pdf"
    THEN IF file.unreadable THEN [status |-> 400]
         ELSE [status |-> 200, text |-> file.text_len,
               links |-> extract_links_from_pdf(file.uris)]
    ELSE IF file_type = "docx"
    THEN IF file.unreadable THEN [status |-> 400]
         ELSE [status |-> 200, text |-> file.text_len, links |-> NoLinks]
    ELSE IF file_type = "txt"
    THEN [status |-> 200, text |-> file.text_len, links |-> NoLinks]
    ELSE [status |-> 400]

\* utils.py clean_json_output.  raw_text.open is what precedes the JSON body:
\* "none", "fence_json" (three backquotes and json), "fence" (three
\* backquotes) or "fence_tag" (three backquotes and another tag, of which the
\* tag stays in the text); raw_text.body is the value json.loads gives for the
\* body alone, NotJson when it gives JSONDecodeError.  A closing fence is
\* stripped whenever present.
NotJson == [notjson |-> TRUE]
clean_json_output(raw_text) ==
    LET tag_left == raw_text.open \notin {"none", "fence_json", "fence"}
    IN IF tag_left \/ raw_text.body = NotJson THEN Dict(EmptyDict)
       ELSE raw_text.body

\* parser.py extract_fields_from_text
extract_fields_from_text(llm) ==
    IF llm.throws THEN Dict(EmptyDict) ELSE clean_json_output(llm.raw_text)

MinTextLen == 100

\* the response of an exception that parse_resume does not catch
Unhandled == [status |-> 500, unhandled |-> TRUE]

\* lines 283-292: the insert and the response
parse_resume_respond(coll, document) ==
    [response |-> [status |-> 200, inserted_id |-> document["_id"], data |-> document],
     collection |-> Append(coll, document)]

\* lines 275-295: the metadata, the insert and the response
parse_resume_insert(req, coll, utcnow, extraction, normalized) ==
    IF normalized.raised THEN [response |-> Unhandled, collection |-> coll]
    ELSE IF req.db_fails THEN [response |-> HttpError(500), collection |-> coll]
    ELSE parse_resume_respond(
             coll,
             [original_text |-> Num(extraction.text),
              uploaded_by |-> req.session_user,
              uploaded_at |-> utcnow,
              file_name |-> Str(req.filename),
              file_type |-> determine_file_type(req.filename, req.content_type),
              _id |-> Len(coll) + 1] @@ normalized.v)

\* lines 206-273: the check of the LLM's answer and the normalization steps
parse_resume_normalize(req, coll, utcnow, extraction, extracted_data) ==
    IF ~Truthy(extracted_data) THEN [response |-> HttpError(500), collection |-> coll]
    ELSE IF ~IsDict(extracted_data) THEN [response |-> Unhandled, collection |-> coll]
    ELSE parse_resume_insert(req, coll, utcnow, extraction,
                             Normalize(extracted_data.dict, extraction.links))

\* lines 199-205: the checks of the extraction and the call of the LLM
parse_resume_extract(req, coll, utcnow, extraction) ==
    IF extraction.status # 200 THEN [response |-> HttpError(400), collection |-> coll]
    ELSE IF extraction.text < MinTextLen THEN [response |-> HttpError(400), collection |-> coll]
    ELSE parse_resume_normalize(req, coll, utcnow, extraction, extract_fields_from_text(req.llm))

\* parser.py parse_resume, the whole handler: the response and the collection
\* it leaves
parse_resume(req, coll, utcnow) ==
    IF req.session_user = "" THEN [response |-> HttpError(401), collection |-> coll]
    ELSE IF req.filename = <<>> THEN [response |-> HttpError(400), collection |-> coll]
    ELSE parse_resume_extract(req, coll, utcnow,
                              extract_text_from_resume(req.filename, req.content_type, req.file))


(***************************************************************************)
(* Upload requests                                                         *)
(***************************************************************************)
MaxEmailLen == 6
MaxPhoneRun == 6
MaxDayLen == 3
MaxYearLen == 5
MaxUris == 2

Strings(alphabet, n) == UNION {[1..k -> alphabet] : k \in 0..n}

DigitCycle == <<"9", "8", "7", "6", "5", "4", "3", "2", "1", "0">>
DigitRun(n) == [i \in 1..n |-> DigitCycle[((i - 1) % 10) + 1]]

EmailAlphabet == {"a", "@", ".", " "}
EmailInputs ==
    Strings(EmailAlphabet, MaxEmailLen)
    \cup {<<"a", "@", "b", ".", "c", "o", "m">>,
          <<"n", "o", "t", "-", "a", "n", "-", "e", "m", "a", "i", "l">>}

PhonePrefixes == {<<>>, <<"+", "9", "1">>, <<"+", "9", "1", " ">>, <<"(", "+", "9", "1", ")", " ">>, <<"9", "1">>, <<"+", "9", "1", "+", "9", "1">>}
PhoneSeparators == {<<>>, <<" ">>, <<"-">>, <<"\t">>, <<")", " ", "(">>, <<"a">>}
PhoneSuffixes == {<<>>, <<"x">>}
PhoneInputs ==
    {pre \o DigitRun(n) \o sep \o DigitRun(m) \o suf :
        pre \in PhonePrefixes, n \in 0..MaxPhoneRun, sep \in PhoneSeparators,
        m \in 0..MaxPhoneRun, suf \in PhoneSuffixes}
    \cup {<<"+", "9", "1", " ", "9", "8", "7", "6", "5", "-", "4", "3", "2", "1", "0">>,
          <<"1", "2", "3", "4", "5">>}

DobSeparators == {<<"-">>, <<"/">>}
DobSuffixes == {<<>>, <<" ">>, <<"\n">>}
DobInputs ==
    {DigitRun(a) \o s1 \o DigitRun(b) \o s2 \o DigitRun(c) \o suf :
        a \in 1..MaxDayLen, b \in 1..MaxDayLen, c \in 1..MaxYearLen,
        s1 \in DobSeparators, s2 \in DobSeparators, suf \in DobSuffixes}
    \cup {<<"1", "a", "-", "0", "8", "-", "1", "9", "9", "5">>, <<"1", "5", "-", "0", "8", "-", "1", "9", "9", "5">>,
          <<"1", "9", "9", "5", "-", "0", "8", "-", "1", "5">>, <<>>}

LinkPads == {<<>>, <<" ">>}
LinkSchemes == {<<>>, <<"h", "t", "t", "p", ":", "/", "/">>, <<"h", "t", "t", "p", "s", ":", "/", "/">>, <<"f", "t", "p", ":", "/", "/">>, SCHEME_SEP}
LinkHosts == {LINKEDIN_COM, GITHUB_COM, <<"L", "i", "n", "k", "e", "d", "I", "n", ".", "c", "o", "m">>, <<"x", ".", "i", "o">>}
LinkPath == <<"/", "i", "n", "/", "y">>
LinkValues ==
    {p1 \o sch \o host \o LinkPath \o p2 :
        p1 \in LinkPads, sch \in LinkSchemes, host \in LinkHosts, p2 \in LinkPads}
    \cup {<<>>, <<" ">>}

\* hyperlink targets found in a PDF (page.get_links()), with and without scheme
SampleUris ==
    {<<"h", "t", "t", "p", "s", ":", "/", "/", "l", "i", "n", "k", "e", "d", "i", "n", ".", "c", "o", "m", "/", "i", "n", "/", "x">>,
     <<"w", "w", "w", ".", "l", "i", "n", "k", "e", "d", "i", "n", ".", "c", "o", "m", "/", "i", "n", "/", "x">>,
     <<"h", "t", "t", "p", "s", ":", "/", "/", "g", "i", "t", "h", "u", "b", ".", "c", "o", "m", "/", "x">>,
     <<"m", "a", "i", "l", "t", "o", ":", "a", "@", "b", ".", "c">>}
UriLists == Strings(SampleUris, MaxUris)

\* a mapping as the extraction prompt's fixed JSON format asks for it
\* (prompts.py lines 18-73)
PromptProjectFields ==
    {"project_title", "technologies_course_semester", "description", "url", "client_name",
     "start_end_date", "outcome_impact", "team_size", "budget_or_size", "certificate"}
SchemaSections ==
    {"personal_information", "professional_summary", "education", "experience", "projects",
     "certifications", "relevant_coursework", "extracurricular_hobbies"}

SomeText == Str(<<"x">>)
BasePersonal ==
    [full_name |-> Str(<<"n">>), email |-> Str(<<"a", "@", "b", ".", "c">>),
     phone |-> Str(DigitRun(PhoneDigits)), location |-> Str(<<"p">>),
     linkedin |-> EmptyStr, github |-> EmptyStr,
     date_of_birth |-> Str(<<"1", "5", "-", "0", "8", "-", "1", "9", "9", "5">>)]
BaseSummary ==
    [summary |-> SomeText, skills |-> List(<<Str(<<"s">>)>>), languages |-> List(<<>>)]
BaseEducation == [k \in EducationFields |-> SomeText]
BaseExperience == [k \in ExperienceFields |-> SomeText]
BaseCertificate == [k \in CertificateFields |-> EmptyStr]
BaseProject ==
    [k \in PromptProjectFields |->
        IF k = "certificate" THEN Dict(BaseCertificate) ELSE SomeText]
BaseDoc ==
    [personal_information |-> Dict(BasePersonal),
     professional_summary |-> Dict(BaseSummary),
     education |-> List(<<Dict(BaseEducation)>>),
     experience |-> List(<<Dict(BaseExperience)>>),
     projects |-> List(<<Dict(BaseProject)>>),
     certifications |-> List(<<>>),
     relevant_coursework |-> List(<<>>),
     extracurricular_hobbies |-> List(<<>>)]

Restrict(f, keys) == [k \in keys |-> f[k]]
WithPersonal(field, value) ==
    [BaseDoc EXCEPT !.personal_information = Dict([BasePersonal EXCEPT ![field] = value])]

\* mappings with keys absent: any subset of the sections, and any subset of
\* the leaves of one section or entry
AbsentKeyDocs ==
    {Restrict(BaseDoc, K) : K \in SUBSET SchemaSections}
    \cup {[BaseDoc EXCEPT !.personal_information = Dict(Restrict(BasePersonal, K))] :
            K \in SUBSET PersonalFields}
    \cup {[BaseDoc EXCEPT !.professional_summary = Dict(Restrict(BaseSummary, K))] :
            K \in SUBSET (SummaryScalarFields \cup SummaryListFields)}
    \cup {[BaseDoc EXCEPT !.education = List(<<Dict(Restrict(BaseEducation, K))>>)] :
            K \in SUBSET EducationFields}
    \cup {[BaseDoc EXCEPT !.experience = List(<<Dict(Restrict(BaseExperience, K))>>)] :
            K \in SUBSET ExperienceFields}
    \cup {[BaseDoc EXCEPT !.projects = List(<<Dict(Restrict(BaseProject, K))>>)] :
            K \in SUBSET PromptProjectFields}
    \cup {[BaseDoc EXCEPT !.projects =
               List(<<Dict([BaseProject EXCEPT !.certificate = Dict(Restrict(BaseCertificate, K))])>>)] :
            K \in SUBSET CertificateFields}

\* mappings with a null or wrong-typed value
WrongValues ==
    {Null, SomeText, EmptyStr, Num(5), Num(0), List(<<>>), List(<<SomeText>>), List(<<Null>>),
     Dict(EmptyDict), Dict([a |-> SomeText])}
WrongTypedDocs ==
    {[BaseDoc EXCEPT ![k] = v] : k \in SchemaSections, v \in WrongValues}
    \cup {WithPersonal(f, v) : f \in PersonalFields, v \in WrongValues}
    \cup {[BaseDoc EXCEPT !.professional_summary = Dict([BaseSummary EXCEPT ![f] = v])] :
            f \in SummaryScalarFields \cup SummaryListFields, v \in WrongValues}

\* the object the prompt asks for when the resume cannot be parsed
\* (prompts.py lines 75-78)
ErrorDoc == [error |-> SomeText]

BaseFile == [unreadable |-> FALSE, text_len |-> MinTextLen, uris |-> <<>>]
LlmReturns(open, body) == [throws |-> FALSE, raw_text |-> [open |-> open, body |-> body]]
LlmThrows == [throws |-> TRUE]
BaseFilename == <<"c", "v", ".", "p", "d", "f">>
BaseRequest ==
    [session_user |-> "alice@x", filename |-> BaseFilename, content_type |-> PDF_TYPE,
     file |-> BaseFile, llm |-> LlmReturns("none", Dict(BaseDoc)), db_fails |-> FALSE]
RequestFor(doc) == [BaseRequest EXCEPT !.llm = LlmReturns("none", Dict(doc))]

\* a request with the given mapping from the LLM and hyperlinks in the PDF
LinkRequest(doc, uris) == [RequestFor(doc) EXCEPT !.file.uris = uris]

Filenames ==
    {<<>>, FILE_LITERAL, BaseFilename, <<" ", "C", "V", ".", "P", "D", "F", " ">>, <<"c", "v", ".", "d", "o", "c", "x">>, <<"c", "v", ".", "d", "o", "c">>,
     <<"c", "v", ".", "t", "x", "t">>, <<"c", "v", ".", "p", "n", "g">>, <<"c", "v">>}
ContentTypes ==
    {PDF_TYPE, "application/msword", "text/plain", "", "application/octet-stream", "image/png"}
    \cup DOCX_TYPES \cup TEXT_TYPES
TextLens == {0, MinTextLen - 1, MinTextLen, MinTextLen + 1}
FileRequests ==
    {[BaseRequest EXCEPT !.filename = fn, !.content_type = ct,
                         !.file = [unreadable |-> bad, text_len |-> n, uris |-> <<>>]] :
        fn \in Filenames, ct \in ContentTypes, bad \in BOOLEAN, n \in TextLens}

LlmBodies ==
    {NotJson, Dict(BaseDoc), Dict(EmptyDict), Dict(ErrorDoc), List(<<>>), List(<<Num(1)>>),
     Null, Num(5), SomeText}
LlmRequests ==
    {[BaseRequest EXCEPT !.llm = LlmReturns(open, body)] :
        open \in {"none", "fence_json", "fence", "fence_tag"}, body \in LlmBodies}
    \cup {[BaseRequest EXCEPT !.llm = LlmThrows],
          [BaseRequest EXCEPT !.session_user = ""],
          [BaseRequest EXCEPT !.db_fails = TRUE]}

\* the uploads of the model: a contact field varied; keys absent; values null
\* or wrong-typed; a linkedin or github value with at most one hyperlink in
\* the PDF; an empty value, or none, with any hyperlinks; the file varied; the
\* LLM's answer varied
IsUploadRequest(req) ==
    \/ \E e \in EmailInputs : req = RequestFor(WithPersonal("email", Str(e)))
    \/ \E p \in PhoneInputs : req = RequestFor(WithPersonal("phone", Str(p)))
    \/ \E d \in DobInputs : req = RequestFor(WithPersonal("date_of_birth", Str(d)))
    \/ \E doc \in AbsentKeyDocs \cup WrongTypedDocs : req = RequestFor(doc)
    \/ \E f \in {"linkedin", "github"}, v \in LinkValues, u \in Strings(SampleUris, 1) :
          req = LinkRequest(WithPersonal(f, Str(v)), u)
    \/ \E f \in {"linkedin", "github"}, v \in LinkPads, u \in UriLists :
          req = LinkRequest(WithPersonal(f, Str(v)), u)
    \/ \E f \in {"linkedin", "github"}, u \in UriLists :
          req = LinkRequest([BaseDoc EXCEPT !.personal_information =
                                Dict(Restrict(BasePersonal, PersonalFields \ {f}))], u)
    \/ req \in FileRequests \cup LlmRequests

(***************************************************************************)
(* The upload specification: one upload, then the normalization steps once *)
(* more on what was stored                                                 *)
(***************************************************************************)
\* Time is counted in stamps.  An ISO timestamp of day d is the stamp
\* d * StampsPerDay + k with 1 <= k < StampsPerDay; the bare date string
\* "YYYY-MM-DD" of day d, a proper prefix of every timestamp of that day, is
\* d * StampsPerDay.  String comparison of ISO timestamps is integer comparison.
StampsPerDay == 2
DayOf(stamp) == stamp \div StampsPerDay
DaysBefore(stamp, days) == stamp - days * StampsPerDay

\* the time of the modelled requests: a timestamp of day 200
Noon == (200 * StampsPerDay) + 1

InitUpload ==
    /\ IsUploadRequest(request)
    /\ collection = <<>>
    /\ response = NoResponse
    /\ renormalized = NotRun
    /\ now = Noon
    /\ ServiceIdle
    /\ LiveIdle

\* POST /parse-resume/
ParseResume ==
    /\ response = NoResponse
    /\ LET result == parse_resume(request, collection, now) IN
        /\ response' = result.response
        /\ collection' = result.collection
    /\ UNCHANGED <<request, renormalized, now, service, live>>

\* the links extract_text_from_resume returned for the request
ScrapedLinks(req) == extract_text_from_resume(req.filename, req.content_type, req.file).links

\* the normalization steps of parse_resume run on the stored record, with the
\* same scraped links
Renormalize ==
    /\ response.status = 200
    /\ renormalized = NotRun
    /\ renormalized' =
         [run |-> TRUE,
          result |-> Normalize(collection[Len(collection)], ScrapedLinks(request))]
    /\ UNCHANGED <<collection, request, response, now, service, live>>

NextUpload == ParseResume \/ Renormalize

SpecUpload == InitUpload /\ [][NextUpload]_vars

(***************************************************************************)
(* Properties of the upload handler                                        *)
(***************************************************************************)
Stored == response.status = 200
StoredDoc == collection[Len(collection)]
StoredPersonal == StoredDoc["personal_information"].dict

\* the mapping the LLM adapter handed to parse_resume
LlmData == extract_fields_from_text(request.llm)

\* the request got as far as the normalization steps with a non-empty mapping
ReachedNormalization ==
    /\ response # NoResponse
    /\ request.session_user # ""
    /\ request.filename # <<>>
    /\ extract_text_from_resume(request.filename, request.content_type, request.file).status = 200
    /\ request.file.text_len >= MinTextLen
    /\ IsDict(LlmData) /\ Truthy(LlmData)

\* the LLM's value of a personal_information field is the string s
LlmPersonalIs(field, s) ==
    /\ IsDict(LlmData)
    /\ "personal_information" \in DOMAIN LlmData.dict
    /\ IsDict(LlmData.dict["personal_information"])
    /\ field \in DOMAIN LlmData.dict["personal_information"].dict
    /\ LlmData.dict["personal_information"].dict[field] = Str(s)

\* the LLM's value of a personal_information field, "" when the key is absent
LlmPersonal(field) ==
    Get(Get(LlmData.dict, "personal_information", Dict(EmptyDict)).dict, field, EmptyStr)

\* C3: the normalization steps never raise: every non-empty mapping, whatever
\* keys are absent and whatever values are null or wrong-typed, is normalized
\* and stored
C3_NeverRaises ==
    (ReachedNormalization /\ ~request.db_fails) => response.status = 200

HasKeys(v, keys) == IsDict(v) /\ keys \subseteq DOMAIN v.dict
AllHaveKeys(v, keys) == IsList(v) /\ \A i \in 1..Len(v.list) : HasKeys(v.list[i], keys)

\* every key of the fixed JSON format of the extraction prompt is present
FullyPopulated(doc) ==
    /\ SchemaSections \subseteq DOMAIN doc
    /\ HasKeys(doc["personal_information"], PersonalFields)
    /\ HasKeys(doc["professional_summary"], SummaryScalarFields \cup SummaryListFields)
    /\ AllHaveKeys(doc["education"], EducationFields)
    /\ AllHaveKeys(doc["experience"], ExperienceFields)
    /\ AllHaveKeys(doc["projects"], PromptProjectFields)
    /\ \A i \in 1..Len(doc["projects"].list) :
          HasKeys(doc["projects"].list[i].dict["certificate"], CertificateFields)

\* C4: for a non-empty LLM mapping with any subset of keys absent the upload
\* succeeds and the stored record holds every key of the fixed schema, the
\* project's client_name and certificate leaves included
C4_EverySchemaKey ==
    (ReachedNormalization /\ ~request.db_fails /\ LlmData.dict \in AbsentKeyDocs)
        => (Stored /\ FullyPopulated(StoredDoc))

\* s is, in its entirety, non-whitespace local part, "@", non-whitespace
\* domain, ".", non-whitespace TLD
EmailShape(s) ==
    \E i \in 1..Len(s), j \in 1..Len(s) :
        /\ 2 <= i /\ i + 2 <= j /\ j + 1 <= Len(s)
        /\ s[i] = "@" /\ s[j] = "."
        /\ \A k \in 1..Len(s) : k \notin {i, j} => s[k] \notin Whitespace

\* C5: in every persisted record email is "" or of the email shape in its
\* entirety, date_of_birth is "" or dd-dd-dddd, phone is "" or 10 digits
\* (stated for the uploads whose three contact values are strings)
C5_ContactValidOrEmpty ==
    (Stored /\ \A f \in {"email", "date_of_birth", "phone"} : IsStr(LlmPersonal(f))) =>
        /\ StoredPersonal["email"].str = <<>> \/ EmailShape(StoredPersonal["email"].str)
        /\ StoredPersonal["date_of_birth"].str = <<>>
              \/ DobFullMatch(StoredPersonal["date_of_birth"].str)
        /\ StoredPersonal["phone"].str = <<>> \/ PhoneFullMatch(StoredPersonal["phone"].str)

\* what is stored for phone p when the characters of `stripped` are removed,
\* then one leading +91, and the rest is kept only if it is exactly 10 digits
PhoneAfterStripping(p, stripped) ==
    LET bare == SelectSeq(p, LAMBDA c : c \notin stripped)
        rest == IF Len(bare) >= 3 /\ bare[1] = "+" /\ bare[2] = "9" /\ bare[3] = "1"
                THEN SubSeq(bare, 4, Len(bare)) ELSE bare
    IN IF Len(rest) = 10 /\ \A k \in 1..Len(rest) : rest[k] \in Digits THEN rest ELSE <<>>

\* C6 as claimed: every whitespace, hyphen and parenthesis character is
\* stripped from a non-empty phone string before the +91 and 10-digit test
C6_PhoneStripsWhitespace ==
    (Stored /\ IsStr(LlmPersonal("phone")) /\ LlmPersonal("phone").str # <<>>) =>
        StoredPersonal["phone"] =
            Str(PhoneAfterStripping(LlmPersonal("phone").str, Whitespace \cup {"-", "(", ")"}))

\* C6 amended: for every non-empty phone string the space, hyphen and
\* parenthesis characters are stripped (no other whitespace), then one leading
\* +91, and the result is stored iff exactly 10 digits remain, otherwise ""
C6_PhoneStripsSpaces ==
    (Stored /\ IsStr(LlmPersonal("phone")) /\ LlmPersonal("phone").str # <<>>) =>
        StoredPersonal["phone"] =
            Str(PhoneAfterStripping(LlmPersonal("phone").str, {" ", "-", "(", ")"}))

\* "+91 98765-43210" was uploaded and "9876543210" is stored
C6_Witness ==
    /\ Stored
    /\ LlmPersonalIs("phone", <<"+", "9", "1", " ", "9", "8", "7", "6", "5", "-", "4", "3", "2", "1", "0">>)
    /\ StoredPersonal["phone"] = Str(<<"9", "8", "7", "6", "5", "4", "3", "2", "1", "0">>)

FieldDomain(field) == IF field = "linkedin" THEN LINKEDIN_COM ELSE GITHUB_COM

\* C7 as claimed: for linkedin and github an empty LLM value with a scraped
\* link stores the scraped link; a non-empty value that does not start with
\* "http" and contains the field's domain stores "https://" followed by the
\* value without "://"; the stored value is always a string, "" when the
\* value is "" and nothing was scraped
C7_LinkRepairOfValue ==
    Stored =>
        \A f \in {"linkedin", "github"} :
            LET value == LlmPersonal(f).str
                scraped == ScrapedLinks(request)[f]
            IN /\ (value = <<>> /\ scraped # <<>>) => StoredPersonal[f] = Str(scraped)
               /\ (value # <<>> /\ ~StartsWith(value, HTTP) /\ Contains(value, FieldDomain(f)))
                    => StoredPersonal[f] = Str(HTTPS_PREFIX \o Remove(value, SCHEME_SEP))
               /\ IsStr(StoredPersonal[f])
               /\ (value = <<>> /\ scraped = <<>>) => StoredPersonal[f] = EmptyStr

\* C7 amended: the same with the LLM's value trimmed of its surrounding
\* whitespace: a trimmed value that is empty, with a scraped link, stores the
\* scraped link; a trimmed value that is non-empty, does not start with "http"
\* and contains the field's domain stores "https://" followed by the trimmed
\* value without "://"; the stored value is always a string, "" when the
\* value is "" and nothing was scraped
C7_LinkRepair ==
    Stored =>
        \A f \in {"linkedin", "github"} :
            LET val == Strip(LlmPersonal(f).str)
                scraped == ScrapedLinks(request)[f]
            IN /\ (val = <<>> /\ scraped # <<>>) => StoredPersonal[f] = Str(scraped)
               /\ (val # <<>> /\ ~StartsWith(val, HTTP) /\ Contains(val, FieldDomain(f)))
                    => StoredPersonal[f] = Str(HTTPS_PREFIX \o Remove(val, SCHEME_SEP))
               /\ IsStr(StoredPersonal[f])
               /\ (LlmPersonal(f).str = <<>> /\ scraped = <<>>) => StoredPersonal[f] = EmptyStr

\* "linkedin.com/in/y" was uploaded and "https://linkedin.com/in/y" is stored
C7_Witness ==
    /\ Stored
    /\ LlmPersonalIs("linkedin", <<"l", "i", "n", "k", "e", "d", "i", "n", ".", "c", "o", "m", "/", "i", "n", "/", "y">>)
    /\ StoredPersonal["linkedin"] = Str(<<"h", "t", "t", "p", "s", ":", "/", "/", "l", "i", "n", "k", "e", "d", "i", "n", ".", "c", "o", "m", "/", "i", "n", "/", "y">>)

\* C8: the normalization steps applied to an already normalized record, with
\* the same scraped links, return the record unchanged
C8_Idempotent ==
    renormalized.run =>
        (~renormalized.result.raised /\ renormalized.result.v = StoredDoc)

(***************************************************************************)
(* Analytics: time, Python and MongoDB expression helpers                  *)
(***************************************************************************)
Min(a, b) == IF a <= b THEN a ELSE b
Abs(a) == IF a < 0 THEN -a ELSE a

RECURSIVE SumSeq(_)
SumSeq(q) == IF q = <<>> THEN 0 ELSE Head(q) + SumSeq(Tail(q))

\* round(num / den, 1), in tenths; Python rounds an exact half to even
RoundTenths(num, den) ==
    LET n == Abs(num) * 10
        q == n \div den
        r == n % den
        up == (2 * r > den) \/ (2 * r = den /\ q % 2 = 1)
        m == IF up THEN q + 1 ELSE q
    IN IF num < 0 THEN -m ELSE m

\* len(v): TypeError for None and numbers
PyLen(v) ==
    IF IsList(v) THEN Ok(Len(v.list))
    ELSE IF IsStr(v) THEN Ok(Len(v.str))
    ELSE IF IsDict(v) THEN Ok(Cardinality(DOMAIN v.dict))
    ELSE Raised

\* the value of a one- or two-step field path "$a" / "$a.b" of a document;
\* Missing when a step is absent or leads through a non-document
Missing == [missing |-> TRUE]
FieldPath(doc, path) ==
    IF path[1] \notin DOMAIN doc THEN Missing
    ELSE IF Len(path) = 1 THEN doc[path[1]]
    ELSE IF ~IsDict(doc[path[1]]) THEN Missing
    ELSE IF path[2] \notin DOMAIN doc[path[1]].dict THEN Missing
    ELSE doc[path[1]].dict[path[2]]

\* {"$size": {"$ifNull": [path, []]}}: a missing or null field counts as the
\* empty array; $size of anything but an array fails the aggregation
SizeIfNull(doc, path) ==
    LET v == FieldPath(doc, path) IN
    IF v = Missing \/ IsNull(v) THEN Ok(0)
    ELSE IF IsList(v) THEN Ok(Len(v.list))
    ELSE Raised

\* the orders in which a set of documents can come out of {"$sort": {key: -1}}:
\* every arrangement with non-increasing keys (ties in any order)
SortedDescending(items, key) ==
    {q \in [1..Cardinality(items) -> items] :
        /\ \A i, j \in 1..Cardinality(items) : i # j => q[i] # q[j]
        /\ \A i \in 1..(Cardinality(items) - 1) : q[i][key] >= q[i + 1][key]}

(***************************************************************************)
(* analytics.py get_ranking_performance                                    *)
(***************************************************************************)
ScoreCap == 100
BucketWidth == 20
TrendDays == 7

\* a variant of line 330 without the min(100, ...)
ranking_score_uncapped(skills_count, experience_count, education_count) ==
    (skills_count * 2) + (experience_count * 10) + (education_count * 5)

\* line 330, the scoring algorithm
ranking_score(skills_count, experience_count, education_count) ==
    Min(ScoreCap, (skills_count * 2) + (experience_count * 10) + (education_count * 5))

\* line 332
score_bucket(score) == (score \div BucketWidth) * BucketWidth

\* lines 325-327: the three len(...) of the loop body
resume_counts(resume) ==
    LET summary == Get(resume, "professional_summary", Dict(EmptyDict))
        skills == IF IsDict(summary) THEN PyLen(Get(summary.dict, "skills", List(<<>>)))
                  ELSE Raised          \* no .get on None, str, list
        experience == PyLen(Get(resume, "experience", List(<<>>)))
        education == PyLen(Get(resume, "education", List(<<>>)))
    IN IF skills.raised \/ experience.raised \/ education.raised THEN Raised
       ELSE Ok([skills_count |-> skills.v, experience_count |-> experience.v,
                education_count |-> education.v])

\* lines 323-335, one iteration: the locals score and bucket of a resume
score_resume(resume) ==
    LET c == resume_counts(resume).v
        score == ranking_score(c.skills_count, c.experience_count, c.education_count)
    IN [resume_id |-> resume["_id"], score |-> score, bucket |-> score_bucket(score)]

\* lines 345-346: the score summed for the daily trend
trend_score(resume) ==
    LET c == resume_counts(resume).v
    IN Min(ScoreCap, (c.skills_count * 2) + (c.experience_count * 10))

\* lines 291-303
ranking_match(doc, user_email, date_from, date_to) ==
    /\ doc["uploaded_by"] = user_email
    /\ date_from # 0 => doc["uploaded_at"] >= date_from
    /\ date_to # 0 => doc["uploaded_at"] <= date_to

\* sum(count for score, count in score_buckets.items() if score in wanted)
BucketCount(scored, wanted) ==
    Len(SelectSeq(scored, LAMBDA e : e.bucket \in wanted))

\* sorted(score_buckets.items()): the bucket keys in increasing order
SortedBuckets(buckets) ==
    CHOOSE q \in [1..Cardinality(buckets) -> buckets] :
        \A i \in 1..(Cardinality(buckets) - 1) : q[i] < q[i + 1]

\* lines 342-353, the entry of the day i days before utcnow
performance_trend(resumes, utcnow, i) ==
    LET day_resumes ==
            SelectSeq(resumes, LAMBDA r : DayOf(r["uploaded_at"]) = DayOf(DaysBefore(utcnow, i)))
    IN [date |-> DayOf(DaysBefore(utcnow, i)),
        average_score |->
            IF day_resumes = <<>> THEN 0
            ELSE RoundTenths(SumSeq([k \in 1..Len(day_resumes) |-> trend_score(day_resumes[k])]),
                             Len(day_resumes)),
        resume_count |-> Len(day_resumes)]

\* lines 337-374 for the loop's results: scored holds the locals of each
\* iteration, buckets the keys of score_buckets
ranking_response(resumes, utcnow, scored, buckets) ==
    [status |-> 200,
     score_distribution |->
         [i \in 1..Cardinality(buckets) |->
             [low |-> SortedBuckets(buckets)[i],
              high |-> SortedBuckets(buckets)[i] + (BucketWidth - 1),
              count |-> BucketCount(scored, {SortedBuckets(buckets)[i]})]],
     high_performers |-> BucketCount(scored, {b \in buckets : b >= 80}),
     average_score |-> RoundTenths(SumSeq([i \in 1..Len(scored) |-> scored[i].score]),
                                   Len(scored)),
     total_ranked |-> Len(scored),
     performance_trends |->
         [i \in 1..TrendDays |-> performance_trend(resumes, utcnow, TrendDays - i)],
     score_breakdown |->
         [excellent |-> BucketCount(scored, {b \in buckets : b >= 80}),
          good |-> BucketCount(scored, {b \in buckets : 60 <= b /\ b < 80}),
          average |-> BucketCount(scored, {b \in buckets : 40 <= b /\ b < 60}),
          below_average |-> BucketCount(scored, {b \in buckets : b < 40})],
     scored |-> scored]

\* lines 319-335 for the resumes found: the loop over them
ranking_for_scored(resumes, utcnow, scored) ==
    ranking_response(resumes, utcnow, scored, {scored[i].bucket : i \in 1..Len(scored)})

\* lines 305-376 for the resumes found
ranking_for_resumes(resumes, utcnow) ==
    IF resumes = <<>>
    THEN [status |-> 200, score_distribution |-> <<>>, high_performers |-> 0,
          average_score |-> 0, total_ranked |-> 0, performance_trends |-> <<>>, scored |-> <<>>]
    ELSE IF \E i \in 1..Len(resumes) : resume_counts(resumes[i]).raised THEN HttpError(500)
    ELSE ranking_for_scored(resumes, utcnow, [i \in 1..Len(resumes) |-> score_resume(resumes[i])])

\* get_ranking_performance, the whole handler; date_from / date_to are 0 when
\* the parameter is not given
get_ranking_performance(coll, utcnow, user_email, date_from, date_to) ==
    IF user_email = "" THEN HttpError(401)
    ELSE ranking_for_resumes(
             SelectSeq(coll, LAMBDA d : ranking_match(d, user_email, date_from, date_to)),
             utcnow)

(***************************************************************************)
(* analytics.py get_filtered_resumes                                       *)
(***************************************************************************)
\* {field: {"$in": values}} on a field that may hold an array: an array
\* matches when one of its elements is among the values
MatchIn(v, values) ==
    IF v = Missing THEN FALSE
    ELSE IF IsList(v) THEN \E i \in 1..Len(v.list) : v.list[i] \in values
    ELSE v \in values

\* {"education.degree": {"$in": values}}: the path runs through the array of
\* education entries
MatchDegreeIn(doc, values) ==
    LET education == FieldPath(doc, <<"education">>) IN
    IF education = Missing THEN FALSE
    ELSE IF IsList(education)
    THEN \E i \in 1..Len(education.list) :
            /\ IsDict(education.list[i])
            /\ "degree" \in DOMAIN education.list[i].dict
            /\ MatchIn(education.list[i].dict["degree"], values)
    ELSE IsDict(education) /\ "degree" \in DOMAIN education.dict
            /\ MatchIn(education.dict["degree"], values)

\* lines 567-575: the experience-entry counts the named levels stand for
exp_ranges(experience_levels) ==
    (IF "entry" \in experience_levels THEN {0, 1, 2} ELSE {})
    \cup (IF "mid" \in experience_levels THEN {3, 4, 5} ELSE {})
    \cup (IF "senior" \in experience_levels THEN {6, 7, 8, 9, 10} ELSE {})

\* lines 555-578: match_query without its $expr part; a filter that is not
\* given (or empty) is the empty set
filtered_match(doc, user_email, skills_filter, locations_filter, education_filter) ==
    /\ doc["uploaded_by"] = user_email
    /\ skills_filter # {} =>
          MatchIn(FieldPath(doc, <<"professional_summary", "skills">>), skills_filter)
    /\ locations_filter # {} =>
          MatchIn(FieldPath(doc, <<"personal_information", "location">>), locations_filter)
    /\ education_filter # {} => MatchDegreeIn(doc, education_filter)

\* lines 585-596: the $addFields expression of the pipeline
calculated_score(doc) ==
    LET skills == SizeIfNull(doc, <<"professional_summary", "skills">>)
        experience == SizeIfNull(doc, <<"experience">>)
        education == SizeIfNull(doc, <<"education">>)
    IN IF skills.raised \/ experience.raised \/ education.raised THEN Raised
       ELSE Ok(Min(100, (skills.v * 2) + (experience.v * 10) + (education.v * 5)))

\* get_filtered_resumes, the whole handler: the set of responses it can give
\* ($sort leaves the order of equal scores open).  An expression that fails
\* on a document the pipeline evaluates it for fails the aggregation (500), as
\* does a $limit that is not positive.
get_filtered_resumes(coll, user_email, skills_filter, locations_filter, education_filter, experience_levels, score_min, score_max, limit) ==
    LET ranges == exp_ranges(experience_levels)
        candidates ==
            {coll[i] : i \in {k \in 1..Len(coll) :
                filtered_match(coll[k], user_email, skills_filter, locations_filter,
                               education_filter)}}
        expr_fails == ranges # {} /\ \E d \in candidates : SizeIfNull(d, <<"experience">>).raised
        matched == IF ranges = {} THEN candidates
                   ELSE {d \in candidates : SizeIfNull(d, <<"experience">>).v \in ranges}
        score_fails == \E d \in matched : calculated_score(d).raised
        scored == {[calculated_score |-> calculated_score(d).v] @@ d : d \in matched}
        in_range == {d \in scored : d["calculated_score"] >= score_min
                                    /\ d["calculated_score"] <= score_max}
    IN
    IF user_email = "" THEN {HttpError(401)}
    ELSE IF expr_fails \/ score_fails \/ limit <= 0 THEN {HttpError(500)}
    ELSE {[status |-> 200,
           filtered_resumes |-> SubSeq(q, 1, Min(limit, Len(q))),
           total_matches |-> Min(limit, Len(q))] :
            q \in SortedDescending(in_range, "calculated_score")}

(***************************************************************************)
(* analytics.py websocket_endpoint, get_real_time_metrics                  *)
(***************************************************************************)
\* status of an accepted WebSocket handshake
SwitchingProtocols == 101

\* lines 67-85: the snapshot pushed to a connection
get_real_time_metrics(coll, utcnow) ==
    LET recent_resumes == SelectSeq(coll, LAMBDA d : d["uploaded_at"] >= DaysBefore(utcnow, 1))
    IN [recent_uploads |-> Len(recent_resumes),
        total_resumes |-> Len(coll),
        processing_queue |-> 0,
        active_users |->
            Cardinality({recent_resumes[i]["uploaded_by"] : i \in 1..Len(recent_resumes)}),
        last_update |-> utcnow]

\* lines 48-63: the connection is accepted whatever session the handshake
\* carries, and one round of the loop sends a snapshot
websocket_endpoint(coll, utcnow) ==
    [status |-> SwitchingProtocols,
     type |-> "analytics_update",
     data |-> get_real_time_metrics(coll, utcnow),
     timestamp |-> utcnow]

(***************************************************************************)
(* analytics.py get_recruitment_metrics                                    *)
(***************************************************************************)
\* exact quotients: Python's / on the small integers of the model, kept as a
\* fraction in lowest terms
RECURSIVE Gcd(_, _)
Gcd(a, b) == IF b = 0 THEN a ELSE Gcd(b, a % b)

Frac(n, d) == [num |-> n \div Gcd(n, d), den |-> d \div Gcd(n, d)]

FracAdd(x, y) == Frac((x.num * y.den) + (y.num * x.den), x.den * y.den)

RECURSIVE FracSum(_)
FracSum(q) == IF q = <<>> THEN Frac(0, 1) ELSE FracAdd(q[1], FracSum(Tail(q)))

\* {"$size": path} without $ifNull: anything but an array fails the aggregation
SizeOf(doc, path) ==
    LET v == FieldPath(doc, path) IN
    IF v # Missing /\ IsList(v) THEN Ok(Len(v.list)) ELSE Raised

\* the keys of a $group / of sorted(...) in increasing order
SortedAscending(keys) ==
    CHOOSE q \in [1..Cardinality(keys) -> keys] :
        \A i \in 1..(Cardinality(keys) - 1) : q[i] < q[i + 1]

\* lines 101-111: match_query without its $expr part
metrics_match(doc, user_email, start_date, end_date, skills_filter) ==
    /\ doc["uploaded_by"] = user_email
    /\ doc["uploaded_at"] >= start_date
    /\ doc["uploaded_at"] <= end_date
    /\ skills_filter # {} =>
          MatchIn(FieldPath(doc, <<"professional_summary", "skills">>), skills_filter)

\* lines 139-151: the $group entry of one day
daily_stat(matched, day) ==
    LET docs == SelectSeq(matched, LAMBDA d : DayOf(d["uploaded_at"]) = day)
        names == [i \in 1..Len(docs) |-> FieldPath(docs[i], <<"personal_information", "full_name">>)]
    IN [id |-> day,
        count |-> Len(docs),
        avg_skills |->
            Frac(SumSeq([i \in 1..Len(docs) |->
                            SizeIfNull(docs[i], <<"professional_summary", "skills">>).v]),
                 Len(docs)),
        avg_experience |->
            Frac(SumSeq([i \in 1..Len(docs) |-> SizeIfNull(docs[i], <<"experience">>).v]),
                 Len(docs)),
        candidates |-> SelectSeq(names, LAMBDA n : n # Missing)]

\* lines 155-174 for the result of the aggregation
metrics_response(coll, user_email, matched, daily_stats, filters_applied) ==
    [status |-> 200,
     total_resumes |-> Len(SelectSeq(coll, LAMBDA d : d["uploaded_by"] = user_email)),
     filtered_resumes |-> SumSeq([i \in 1..Len(daily_stats) |-> daily_stats[i].count]),
     resumes_this_period |-> SumSeq([i \in 1..Len(daily_stats) |-> daily_stats[i].count]),
     daily_uploads |-> daily_stats,
     average_skills_per_resume |->
         IF daily_stats = <<>> THEN Frac(0, 1)
         ELSE Frac(FracSum([i \in 1..Len(daily_stats) |-> daily_stats[i].avg_skills]).num,
                   FracSum([i \in 1..Len(daily_stats) |-> daily_stats[i].avg_skills]).den
                       * Len(daily_stats)),
     average_experience_per_resume |->
         IF daily_stats = <<>> THEN Frac(0, 1)
         ELSE Frac(FracSum([i \in 1..Len(daily_stats) |-> daily_stats[i].avg_experience]).num,
                   FracSum([i \in 1..Len(daily_stats) |-> daily_stats[i].avg_experience]).den
                       * Len(daily_stats)),
     filters_applied |-> filters_applied,
     matched |-> matched]

\* lines 127-155: the pipeline after $match, on the documents matched
metrics_for_days(coll, user_email, matched, days, filters_applied) ==
    metrics_response(coll, user_email, matched,
                     [i \in 1..Cardinality(days) |-> daily_stat(matched, SortedAscending(days)[i])],
                     filters_applied)

metrics_for_matched(coll, user_email, matched, filters_applied) ==
    IF \E i \in 1..Len(matched) :
            \/ SizeIfNull(matched[i], <<"experience">>).raised
            \/ SizeIfNull(matched[i], <<"professional_summary", "skills">>).raised
    THEN HttpError(500)
    ELSE metrics_for_days(coll, user_email, matched,
                          {DayOf(matched[i]["uploaded_at"]) : i \in 1..Len(matched)},
                          filters_applied)

\* lines 113-123: the $expr of match_query on the documents the rest of the
\* query matches
metrics_for_candidates(coll, user_email, candidates, experience_levels, filters_applied) ==
    IF experience_levels = {}
    THEN metrics_for_matched(coll, user_email, candidates, filters_applied)
    ELSE IF \E i \in 1..Len(candidates) : SizeOf(candidates[i], <<"experience">>).raised
    THEN HttpError(500)
    ELSE metrics_for_matched(
             coll, user_email,
             SelectSeq(candidates,
                       LAMBDA d : SizeOf(d, <<"experience">>).v \in exp_ranges(experience_levels)),
             filters_applied)

\* get_recruitment_metrics, the whole handler; a list parameter that is not
\* given (or empty) is the empty set
get_recruitment_metrics(coll, utcnow, user_email, days_back, skills_filter, score_range_min, score_range_max, experience_levels) ==
    IF user_email = "" THEN HttpError(401)
    ELSE metrics_for_candidates(
             coll, user_email,
             SelectSeq(coll, LAMBDA d : metrics_match(d, user_email, DaysBefore(utcnow, days_back),
                                                      utcnow, skills_filter)),
             experience_levels,
             [skills |-> skills_filter,
              score_range |-> <<score_range_min, score_range_max>>,
              experience_levels |-> experience_levels,
              date_range |-> <<DaysBefore(utcnow, days_back), utcnow>>])

(***************************************************************************)
(* analytics.py get_skills_analysis                                        *)
(***************************************************************************)
PreviousPeriodDays == 60
CurrentPeriodDays == 30

\* lines 189-197
skill_categories ==
    [programming |->
        {<<"p", "y", "t", "h", "o", "n">>,
         <<"j", "a", "v", "a", "s", "c", "r", "i", "p", "t">>,
         <<"j", "a", "v", "a">>,
         <<"c", "+", "+">>,
         <<"c", "#">>,
         <<"p", "h", "p">>,
         <<"r", "u", "b", "y">>,
         <<"g", "o">>,
         <<"r", "u", "s", "t">>},
     web |->
        {<<"h", "t", "m", "l">>,
         <<"c", "s", "s">>,
         <<"r", "e", "a", "c", "t">>,
         <<"a", "n", "g", "u", "l", "a", "r">>,
         <<"v", "u", "e">>,
         <<"n", "o", "d", "e", "j", "s">>,
         <<"e", "x", "p", "r", "e", "s", "s">>,
         <<"d", "j", "a", "n", "g", "o">>,
         <<"f", "l", "a", "s", "k">>},
     database |->
        {<<"m", "y", "s", "q", "l">>,
         <<"p", "o", "s", "t", "g", "r", "e", "s", "q", "l">>,
         <<"m", "o", "n", "g", "o", "d", "b">>,
         <<"r", "e", "d", "i", "s">>,
         <<"e", "l", "a", "s", "t", "i", "c", "s", "e", "a", "r", "c", "h">>,
         <<"s", "q", "l", "i", "t", "e">>},
     cloud |->
        {<<"a", "w", "s">>,
         <<"a", "z", "u", "r", "e">>,
         <<"g", "c", "p">>,
         <<"d", "o", "c", "k", "e", "r">>,
         <<"k", "u", "b", "e", "r", "n", "e", "t", "e", "s">>,
         <<"t", "e", "r", "r", "a", "f", "o", "r", "m">>},
     ml_ai |->
        {<<"m", "a", "c", "h", "i", "n", "e", " ", "l", "e", "a", "r", "n", "i", "n", "g">>,
         <<"d", "e", "e", "p", " ", "l", "e", "a", "r", "n", "i", "n", "g">>,
         <<"t", "e", "n", "s", "o", "r", "f", "l", "o", "w">>,
         <<"p", "y", "t", "o", "r", "c", "h">>,
         <<"s", "c", "i", "k", "i", "t", "-", "l", "e", "a", "r", "n">>,
         <<"n", "l", "p">>},
     mobile |->
        {<<"a", "n", "d", "r", "o", "i", "d">>,
         <<"i", "o", "s">>,
         <<"r", "e", "a", "c", "t", " ", "n", "a", "t", "i", "v", "e">>,
         <<"f", "l", "u", "t", "t", "e", "r">>,
         <<"x", "a", "m", "a", "r", "i", "n">>},
     tools |->
        {<<"g", "i", "t">>,
         <<"j", "e", "n", "k", "i", "n", "s">>,
         <<"j", "i", "r", "a">>,
         <<"c", "o", "n", "f", "l", "u", "e", "n", "c", "e">>,
         <<"s", "l", "a", "c", "k">>,
         <<"f", "i", "g", "m", "a">>}]

\* {"$unwind": "$professional_summary.skills"} on one document: its skills, one
\* output per element; nothing for a missing, null or empty field; a value
\* that is not an array is its own single element
UnwindSkills(doc) ==
    LET v == FieldPath(doc, <<"professional_summary", "skills">>) IN
    IF v = Missing \/ IsNull(v) THEN <<>>
    ELSE IF IsList(v) THEN v.list
    ELSE <<v>>

\* the documents with a skill whose $toLower is id, once per occurrence
RECURSIVE Occurrences(_, _)
Occurrences(docs, id) ==
    IF docs = <<>> THEN <<>>
    ELSE LET skills == UnwindSkills(Head(docs))
             hits == SelectSeq(skills, LAMBDA e : Lower(e.str) = id)
         IN [i \in 1..Len(hits) |-> Head(docs)] \o Occurrences(Tail(docs), id)

\* the $group stage of lines 203-208 (and 240-243): per lower-cased skill its
\* number of occurrences and the set of candidate names
GroupSkills(docs) ==
    LET ids == UNION {{Lower(UnwindSkills(docs[i])[k].str) :
                          k \in 1..Len(UnwindSkills(docs[i]))} : i \in 1..Len(docs)}
    IN {[id |-> id,
         count |-> Len(Occurrences(docs, id)),
         candidates |->
            {FieldPath(Occurrences(docs, id)[k], <<"personal_information", "full_name">>) :
                k \in 1..Len(Occurrences(docs, id))} \ {Missing}] : id \in ids}

\* $toLower takes strings (the skills of the modelled records are strings or
\* the field is not a list of strings, which fails the aggregation)
UnwindFails(docs) ==
    \E i \in 1..Len(docs) : \E k \in 1..Len(UnwindSkills(docs[i])) :
        ~IsStr(UnwindSkills(docs[i])[k])

\* lines 250-258: the trend of one skill, in tenths of a percent point
skill_trend(current_count, previous_count) ==
    IF previous_count > 0
    THEN RoundTenths((current_count - previous_count) * 100, previous_count)
    ELSE IF current_count > 0 THEN 1000 ELSE 0

\* get_skills_analysis, the whole handler: the set of responses it can give
\* ($sort leaves the order of equal counts open); category_filter is "" when
\* not given
get_skills_analysis(coll, utcnow, user_email, top_n, category_filter, min_frequency) ==
    LET mine == SelectSeq(coll, LAMBDA d : d["uploaded_by"] = user_email)
        frequent == {g \in GroupSkills(mine) : g.count >= min_frequency}
        previous_period_start == DaysBefore(utcnow, PreviousPeriodDays)
        current_period_start == DaysBefore(utcnow, CurrentPeriodDays)
        previous_docs ==
            SelectSeq(mine, LAMBDA d : d["uploaded_at"] >= previous_period_start
                                       /\ d["uploaded_at"] < current_period_start)
        previous_count(id) == Len(Occurrences(previous_docs, id))
        in_category(g) ==
            (category_filter # "" /\ category_filter \in DOMAIN skill_categories)
                => \E cat_skill \in skill_categories[category_filter] : Contains(g.id, cat_skill)
        item(g) == [skill |-> g.id, count |-> g.count, candidates |-> g.candidates,
                    trend |-> skill_trend(g.count, previous_count(g.id))]
    IN
    IF user_email = "" THEN {HttpError(401)}
    ELSE IF UnwindFails(mine) THEN {HttpError(500)}
    ELSE {LET skills_data == SelectSeq(SubSeq(q, 1, Min(top_n, Len(q))), in_category)
          IN [status |-> 200,
              top_skills |-> [i \in 1..Len(skills_data) |-> item(skills_data[i])],
              total_unique_skills |-> Len(skills_data)] :
            q \in SortedDescending(frequent, "count")}

(***************************************************************************)
(* The analytics specification: a stored collection and read-only requests *)
(***************************************************************************)
MaxSkills == 2
MaxExperience == 11
MaxEducation == 2
MaxResumes == 2

Alice == "alice@x"
Bob == "bob@x"

SkillNames == <<Str(<<"p", "y", "t", "h", "o", "n">>), Str(<<"P", "y", "t", "h", "o", "n">>), Str(<<"j", "a", "v", "a">>)>>
SkillList(n) == List([i \in 1..n |-> SkillNames[((i - 1) % Len(SkillNames)) + 1]])

\* an LLM mapping with the given skills value and numbers of entries
ResumeData(skills, experience_count, education_count) ==
    [BaseDoc EXCEPT
        !.professional_summary = Dict([BaseSummary EXCEPT !.skills = skills]),
        !.experience = List([i \in 1..experience_count |-> Dict(BaseExperience)]),
        !.education = List([i \in 1..education_count |-> Dict(BaseEducation)])]

\* an upload: who uploads, how many days before Noon, and what the LLM
\* returns as skills value and numbers of experience and education entries
UploadRequest(u) ==
    [RequestFor(ResumeData(u.skills, u.experience_count, u.education_count))
        EXCEPT !.session_user = u.by]

\* the collection after parse_resume has served the uploads in order
RECURSIVE Uploaded(_)
Uploaded(uploads) ==
    IF uploads = <<>> THEN <<>>
    ELSE parse_resume(UploadRequest(uploads[Len(uploads)]),
                      Uploaded(SubSeq(uploads, 1, Len(uploads) - 1)),
                      DaysBefore(Noon, uploads[Len(uploads)].age)).collection

Without(doc, keys) == [k \in (DOMAIN doc) \ keys |-> doc[k]]

\* one resume of Alice, for every skills value (null included, which
\* parse_resume stores as it is) and every number of entries
ScoredUploads ==
    {<<[by |-> Alice, age |-> 0, skills |-> skills, experience_count |-> x,
        education_count |-> e]>> :
        skills \in {Null} \cup {SkillList(n) : n \in 0..MaxSkills},
        x \in 0..MaxExperience, e \in 0..MaxEducation}

\* records in which lists are absent (written before the current defaults)
LegacyCollections ==
    {<<Without(Uploaded(<<[by |-> Alice, age |-> 0, skills |-> SkillList(2),
                           experience_count |-> x, education_count |-> 1]>>)[1],
               keys)>> :
        x \in {0, 7, 10}, keys \in SUBSET {"professional_summary", "experience", "education"}}
    \cup {<<[d EXCEPT !["professional_summary"] = Dict(Without(@.dict, {"skills"}))]>> :
            d \in {Uploaded(<<[by |-> Alice, age |-> 0, skills |-> SkillList(2),
                               experience_count |-> 7, education_count |-> 1]>>)[1]}}

\* up to MaxResumes resumes of different ages with overlapping skills
UploadAges == {10, 30, 45, 60, 75}
SkillSets == {List(<<>>), SkillList(1), SkillList(3)}
AgedUploads ==
    UNION {[1..n -> {[by |-> Alice, age |-> age, skills |-> sk, experience_count |-> 1,
                      education_count |-> 1] : age \in UploadAges, sk \in SkillSets}
                    \cup {[by |-> Bob, age |-> 10, skills |-> SkillList(1),
                           experience_count |-> 8, education_count |-> 0]}] :
           n \in 0..MaxResumes}

\* three resumes of Alice, two uploaded on one day and one on another, with
\* different numbers of skills and experience entries
ClusteredUploads ==
    {<<[by |-> Alice, age |-> 10, skills |-> a, experience_count |-> 1, education_count |-> 1],
       [by |-> Alice, age |-> 10, skills |-> a, experience_count |-> 1, education_count |-> 1],
       [by |-> Alice, age |-> 20, skills |-> b, experience_count |-> x, education_count |-> 1]>> :
        a \in SkillSets, b \in SkillSets, x \in {1, 4}}

InitAnalytics ==
    /\ \/ \E uploads \in ScoredUploads \cup AgedUploads \cup ClusteredUploads :
            collection = Uploaded(uploads)
       \/ collection \in LegacyCollections
    /\ request = [op |-> "none"]
    /\ response = NoResponse
    /\ renormalized = NotRun
    /\ now = Noon
    /\ ServiceIdle
    /\ LiveIdle

\* every request is served for Alice; Bob and a caller without a session make
\* the request with its default parameters
OtherCallers == {Bob, ""}
DateParams == {0, StampsPerDay * DayOf(DaysBefore(Noon, 45))}

RankingRequests ==
    {[op |-> "ranking_performance", user |-> Alice, date_from |-> df, date_to |-> dt] :
        df \in DateParams, dt \in DateParams}
    \cup {[op |-> "ranking_performance", user |-> u, date_from |-> 0, date_to |-> 0] :
            u \in OtherCallers}

\* GET /analytics/ranking-performance
GetRankingPerformance ==
    /\ response = NoResponse
    /\ \E r \in RankingRequests :
        /\ request' = r
        /\ response' = get_ranking_performance(collection, now, r.user, r.date_from, r.date_to)
    /\ UNCHANGED <<collection, renormalized, now, service, live>>

\* the experience_levels lists sent: none, names of the lookup, another name
LevelLists == {{}, {"entry"}, {"senior"}, {"mid", "senior"}, {"junior"}}

DefaultFilters ==
    [skills |-> {}, locations |-> {}, education |-> {}, levels |-> {},
     score_min |-> 0, score_max |-> 100, limit |-> 50]
FilterParams ==
    {[DefaultFilters EXCEPT !.skills = sk, !.levels = lv, !.score_min = lo] :
        sk \in {{}, {SkillNames[1]}}, lv \in LevelLists, lo \in {0, 80}}
    \cup {[DefaultFilters EXCEPT !.locations = loc, !.education = ed, !.limit = n] :
        loc \in {{}, {Str(<<"q">>)}}, ed \in {{}, {SomeText}}, n \in {0, 1, 50}}
FilterRequests ==
    {[op |-> "filtered_resumes", user |-> Alice, filters |-> f] : f \in FilterParams}
    \cup {[op |-> "filtered_resumes", user |-> u, filters |-> DefaultFilters] :
            u \in OtherCallers}

\* GET /analytics/filtered-resumes
GetFilteredResumes ==
    /\ response = NoResponse
    /\ \E r \in FilterRequests :
        /\ request' = r
        /\ response' \in get_filtered_resumes(collection, r.user, r.filters.skills,
                                              r.filters.locations, r.filters.education,
                                              r.filters.levels, r.filters.score_min,
                                              r.filters.score_max, r.filters.limit)
    /\ UNCHANGED <<collection, renormalized, now, service, live>>

\* top_n is 5..100 (default 20), min_frequency at least 1
SkillsRequests ==
    {[op |-> "skills_analysis", user |-> Alice, top_n |-> top_n,
      category_filter |-> category, min_frequency |-> min_frequency] :
        top_n \in {5, 20}, category \in {"", "programming", "web"}, min_frequency \in {1, 2}}
    \cup {[op |-> "skills_analysis", user |-> u, top_n |-> 20,
           category_filter |-> "", min_frequency |-> 1] : u \in OtherCallers}

\* GET /analytics/skills-analysis
GetSkillsAnalysis ==
    /\ response = NoResponse
    /\ \E r \in SkillsRequests :
        /\ request' = r
        /\ response' \in get_skills_analysis(collection, now, r.user, r.top_n,
                                             r.category_filter, r.min_frequency)
    /\ UNCHANGED <<collection, renormalized, now, service, live>>

\* days_back is 1..365 (default 30), the score range 0..100 (default 0, 100)
MetricsRequests ==
    {[op |-> "recruitment_metrics", user |-> Alice, days_back |-> days_back,
      skills_filter |-> sk, score_range_min |-> lo, score_range_max |-> 100,
      experience_levels |-> lv] :
        days_back \in {30, 60}, sk \in {{}, {SkillNames[1]}}, lo \in {0, 80}, lv \in LevelLists}
    \cup {[op |-> "recruitment_metrics", user |-> u, days_back |-> 30, skills_filter |-> {},
           score_range_min |-> 0, score_range_max |-> 100, experience_levels |-> {}] :
            u \in OtherCallers}

\* GET /analytics/recruitment-metrics
GetRecruitmentMetrics ==
    /\ response = NoResponse
    /\ \E r \in MetricsRequests :
        /\ request' = r
        /\ response' = get_recruitment_metrics(collection, now, r.user, r.days_back,
                                               r.skills_filter, r.score_range_min,
                                               r.score_range_max, r.experience_levels)
    /\ UNCHANGED <<collection, renormalized, now, service, live>>

\* /ws/analytics: a client connects, with or without a session, and receives
\* the first update
WebsocketEndpoint ==
    /\ response = NoResponse
    /\ \E u \in {Alice, Bob, ""} :
        /\ request' = [op |-> "ws_analytics", user |-> u]
        /\ response' = websocket_endpoint(collection, now)
    /\ UNCHANGED <<collection, renormalized, now, service, live>>

NextAnalytics ==
    \/ GetRankingPerformance
    \/ GetFilteredResumes
    \/ GetSkillsAnalysis
    \/ GetRecruitmentMetrics
    \/ WebsocketEndpoint

SpecAnalytics == InitAnalytics /\ [][NextAnalytics]_vars

(***************************************************************************)
(* Properties of the analytics handlers                                    *)
(***************************************************************************)
Served(op) == response # NoResponse /\ request.op = op

\* the number of elements of a list field, 0 when the field is absent or
\* holds no list
ListCount(doc, path) ==
    LET v == FieldPath(doc, path) IN IF v # Missing /\ IsList(v) THEN Len(v.list) ELSE 0

\* min(100, 2*skills_count + 10*experience_count + 5*education_count)
FormulaScore(doc) ==
    Min(100, (2 * ListCount(doc, <<"professional_summary", "skills">>))
             + (10 * ListCount(doc, <<"experience">>))
             + (5 * ListCount(doc, <<"education">>)))

\* the resumes get_ranking_performance was asked to score
RankedResumes ==
    SelectSeq(collection,
              LAMBDA d : ranking_match(d, request.user, request.date_from, request.date_to))

\* C1: for every stored record, records with the skills, experience or
\* education list absent included, get_ranking_performance scores the record
\* and get_filtered_resumes computes its calculated_score, and both are
\* min(100, 2*skills_count + 10*experience_count + 5*education_count)
C1_ScoresAgree ==
    /\ (Served("ranking_performance") /\ request.user # "") =>
          \A k \in 1..Len(RankedResumes) :
              /\ response.status = 200
              /\ \E i \in 1..Len(response.scored) :
                    /\ response.scored[i].resume_id = RankedResumes[k]["_id"]
                    /\ response.scored[i].score = FormulaScore(RankedResumes[k])
    /\ (Served("filtered_resumes") /\ request.user # "" /\ request.filters.limit > 0) =>
          /\ response.status = 200
          /\ \A i \in 1..Len(response.filtered_resumes) :
                response.filtered_resumes[i]["calculated_score"]
                    = FormulaScore(response.filtered_resumes[i])

\* the three counts of the k-th scored resume
CountsOf(k) == resume_counts(RankedResumes[k]).v

\* C2: the score of every scored resume lies in 0..100 and no larger count of
\* skills, of experience entries or of education entries, the other two held
\* fixed, gives a smaller score; at the cap the score stays 100
C2_ScoreBoundedMonotone ==
    (Served("ranking_performance") /\ response.status = 200) =>
        \A k \in 1..Len(response.scored) :
            LET c == CountsOf(k)
                score == response.scored[k].score
            IN /\ score = ranking_score(c.skills_count, c.experience_count, c.education_count)
               /\ score \in 0..100
               /\ \A more \in 1..(MaxExperience + 1) :
                    /\ ranking_score(c.skills_count + more, c.experience_count, c.education_count)
                          >= score
                    /\ ranking_score(c.skills_count, c.experience_count + more, c.education_count)
                          >= score
                    /\ ranking_score(c.skills_count, c.experience_count, c.education_count + more)
                          >= score
                    /\ score = 100 =>
                          ranking_score(c.skills_count + more, c.experience_count + more,
                                        c.education_count + more) = 100

\* a resume whose weighted sum exceeds 100 was scored 100, and one below the
\* cap was scored its weighted sum
C2_Witness ==
    /\ Served("ranking_performance") /\ response.status = 200
    /\ \E k \in 1..Len(response.scored) :
          /\ (CountsOf(k).skills_count * 2) + (CountsOf(k).experience_count * 10)
                + (CountsOf(k).education_count * 5) > 100
          /\ response.scored[k].score = 100

\* C9: every scored resume falls into one of the five bins starting at 0, 20,
\* 40, 60 and 80, the last one covering 80 to 100 inclusive, and the histogram
\* has no other bin
C9_FiveBins ==
    (Served("ranking_performance") /\ response.status = 200) =>
        /\ \A k \in 1..Len(response.scored) :
              LET score == response.scored[k].score
                  bucket == response.scored[k].bucket
              IN /\ bucket \in {0, 20, 40, 60, 80}
                 /\ bucket = (IF score >= 80 THEN 80 ELSE (score \div 20) * 20)
        /\ \A i \in 1..Len(response.score_distribution) :
              response.score_distribution[i].low \in {0, 20, 40, 60, 80}

\* the caller's resumes uploaded from `from` (inclusive) up to `to` (exclusive)
UploadedBetween(from, to) ==
    SelectSeq(collection, LAMBDA d : /\ d["uploaded_by"] = request.user
                                     /\ d["uploaded_at"] >= from
                                     /\ d["uploaded_at"] < to)

\* C10: the trend of every returned skill compares its frequency among the
\* caller's resumes of the last 30 days with its frequency among those of the
\* 30 days before; 100 when the latter is 0 and the former is not, 0 when both
\* are 0
C10_TrendCurrentWindow ==
    (Served("skills_analysis") /\ response.status = 200) =>
        \A i \in 1..Len(response.top_skills) :
            LET id == response.top_skills[i].skill
                current == Len(Occurrences(UploadedBetween(DaysBefore(now, 30), now + 1), id))
                previous == Len(Occurrences(UploadedBetween(DaysBefore(now, 60),
                                                            DaysBefore(now, 30)), id))
            IN response.top_skills[i].trend =
                  (IF previous > 0 THEN RoundTenths((current - previous) * 100, previous)
                   ELSE IF current > 0 THEN 1000 ELSE 0)

\* the LLM call of the upload threw, returned text that is no JSON, or
\* returned the error object the extraction prompt asks for
LlmReportsFailure ==
    \/ request.llm.throws
    \/ request.llm.raw_text.body = NotJson
    \/ /\ IsDict(request.llm.raw_text.body)
       /\ DOMAIN request.llm.raw_text.body.dict = {"error"}

\* C19: when the LLM call throws, its output is not parseable JSON or it is
\* the error object of the extraction prompt, parse_resume inserts no record
C19_NoRecordWithoutParse ==
    (response # NoResponse /\ LlmReportsFailure) => collection = <<>>

\* the experience-entry counts of a level name
LevelCounts(level) ==
    CASE level = "entry" -> {0, 1, 2}
      [] level = "mid" -> {3, 4, 5}
      [] level = "senior" -> {6, 7, 8, 9, 10}
      [] OTHER -> {}

\* the record satisfies the filters: a skill among the given ones, an
\* experience-entry count of one of the named levels, a score in the range
HasSkillAmong(doc, skills) ==
    \E i \in 1..ListCount(doc, <<"professional_summary", "skills">>) :
        doc["professional_summary"].dict["skills"].list[i] \in skills

InLevels(doc, levels) == ListCount(doc, <<"experience">>) \in UNION {LevelCounts(l) : l \in levels}

ScoreWithin(doc, lo, hi) == lo <= FormulaScore(doc) /\ FormulaScore(doc) <= hi

\* C11: every record counted by get_recruitment_metrics and every record
\* returned by get_filtered_resumes is the caller's and satisfies every
\* filter that was supplied: the date range, the skills, the experience
\* levels and the score range
C11_AllFiltersApply ==
    /\ (Served("recruitment_metrics") /\ response.status = 200) =>
          \A i \in 1..Len(response.matched) :
              LET d == response.matched[i] IN
              /\ d["uploaded_by"] = request.user
              /\ d["uploaded_at"] >= DaysBefore(now, request.days_back) /\ d["uploaded_at"] <= now
              /\ request.skills_filter # {} => HasSkillAmong(d, request.skills_filter)
              /\ request.experience_levels # {} => InLevels(d, request.experience_levels)
              /\ ScoreWithin(d, request.score_range_min, request.score_range_max)
    /\ (Served("filtered_resumes") /\ response.status = 200) =>
          \A i \in 1..Len(response.filtered_resumes) :
              LET d == response.filtered_resumes[i] IN
              /\ d["uploaded_by"] = request.user
              /\ request.filters.skills # {} => HasSkillAmong(d, request.filters.skills)
              /\ request.filters.levels # {} => InLevels(d, request.filters.levels)
              /\ ScoreWithin(d, request.filters.score_min, request.filters.score_max)

\* the caller's records a request with the given skills, levels and lowest
\* score is to select among the records uploaded since `since`
Selection(user, since, skills, levels, lo) ==
    {collection[i] : i \in {k \in 1..Len(collection) :
        /\ collection[k]["uploaded_by"] = user
        /\ collection[k]["uploaded_at"] >= since
        /\ skills # {} => HasSkillAmong(collection[k], skills)
        /\ InLevels(collection[k], levels)
        /\ ScoreWithin(collection[k], lo, 100)}}

\* C12: with a non-empty list of level names, both endpoints select exactly
\* the records whose experience-entry count is in the union of the named
\* levels' sets (among the records their other filters leave)
C12_LevelsSelect ==
    /\ (Served("recruitment_metrics") /\ response.status = 200
            /\ request.experience_levels # {}) =>
          {response.matched[i] : i \in 1..Len(response.matched)}
              = Selection(request.user, DaysBefore(now, request.days_back),
                          request.skills_filter, request.experience_levels, 0)
    /\ (Served("filtered_resumes") /\ response.status = 200 /\ request.filters.levels # {}) =>
          {Without(response.filtered_resumes[i], {"calculated_score"}) :
                i \in 1..Len(response.filtered_resumes)}
              = Selection(request.user, 0, request.filters.skills, request.filters.levels,
                          request.filters.score_min)

\* the mean, rounded to tenths, of the suitability scores of the records
MeanScore(docs) ==
    IF docs = <<>> THEN 0
    ELSE RoundTenths(SumSeq([k \in 1..Len(docs) |-> FormulaScore(docs[k])]), Len(docs))

\* C13: for each of the last 7 days, average_score in performance_trends is
\* the mean of min(100, 2*skills + 10*experience + 5*education) over the
\* ranked resumes uploaded that day, 0 when there is none
C13_TrendMeansScore ==
    (Served("ranking_performance") /\ response.status = 200 /\ response.total_ranked > 0) =>
        \A i \in 1..TrendDays :
            response.performance_trends[i].average_score
                = MeanScore(SelectSeq(RankedResumes,
                                      LAMBDA d : DayOf(d["uploaded_at"])
                                                    = response.performance_trends[i].date))

\* the records of the store a caller uploaded
OwnRecords(user) == SelectSeq(collection, LAMBDA d : d["uploaded_by"] = user)

\* C14: an analytics request or live-update connection without a session is
\* rejected (401), and what a caller with a session receives is what the
\* endpoint answers when the store holds that caller's records only
C14_SessionScoped ==
    response # NoResponse =>
        IF request.user = "" THEN response.status = 401
        ELSE CASE request.op = "ws_analytics" ->
                    response = websocket_endpoint(OwnRecords(request.user), now)
               [] request.op = "ranking_performance" ->
                    response = get_ranking_performance(OwnRecords(request.user), now, request.user,
                                                       request.date_from, request.date_to)
               [] request.op = "recruitment_metrics" ->
                    response = get_recruitment_metrics(OwnRecords(request.user), now, request.user,
                                                       request.days_back, request.skills_filter,
                                                       request.score_range_min,
                                                       request.score_range_max,
                                                       request.experience_levels)
               [] request.op = "filtered_resumes" ->
                    response \in get_filtered_resumes(OwnRecords(request.user), request.user,
                                                      request.filters.skills,
                                                      request.filters.locations,
                                                      request.filters.education,
                                                      request.filters.levels,
                                                      request.filters.score_min,
                                                      request.filters.score_max,
                                                      request.filters.limit)
               [] request.op = "skills_analysis" ->
                    response \in get_skills_analysis(OwnRecords(request.user), now, request.user,
                                                     request.top_n, request.category_filter,
                                                     request.min_frequency)

(***************************************************************************)
(* auth.py and dependencies/auth.py                                        *)
(***************************************************************************)
\* line 32: a bcrypt hash, of which the model keeps what verify tells of it
hash_password(password) == [bcrypt |-> password]

\* line 29
verify_password(plain, hashed) == hashed.bcrypt = plain

\* users_collection.find_one({"email": email}): the first such account
NoAccount == [found |-> FALSE]
find_one_user(accounts, email) ==
    IF \E i \in 1..Len(accounts) : accounts[i].email = email
    THEN accounts[CHOOSE i \in 1..Len(accounts) :
                    /\ accounts[i].email = email
                    /\ \A j \in 1..(i - 1) : accounts[j].email # email]
    ELSE NoAccount

\* lines 37-38 of register: the lookup, after which the call is rejected or
\* goes on to the insert
register_find(accounts, user) ==
    IF find_one_user(accounts, user.email) # NoAccount THEN [pc |-> "idle", status |-> 400]
    ELSE [pc |-> "insert", status |-> 0, user |-> user]

\* lines 40-41 of register: the insert
register_insert(accounts, user) ==
    Append(accounts, [email |-> user.email, password |-> hash_password(user.password)])

\* lines 44-52: the response and the session login leaves
login(accounts, sess, user) ==
    IF find_one_user(accounts, user.email) = NoAccount
    THEN [response |-> HttpError(401), session |-> sess]
    ELSE IF ~verify_password(user.password, find_one_user(accounts, user.email).password)
    THEN [response |-> HttpError(401), session |-> sess]
    ELSE [response |-> [status |-> 200],
          session |-> [k \in (DOMAIN sess) \cup {"user"} |->
                          IF k = "user" THEN user.email ELSE sess[k]]]

\* lines 54-57: request.session.clear()
logout(sess) == [response |-> [status |-> 200], session |-> EmptyDict]

\* lines 59-64
get_logged_in_user(sess) ==
    IF Get(sess, "user", "") = "" THEN HttpError(401)
    ELSE [status |-> 200, email |-> Get(sess, "user", "")]

\* dependencies/auth.py: the caller's email; the 401 it raises for a session
\* without a (non-empty) user is the "" the handlers answer 401 for
get_current_user(sess) == Get(sess, "user", "")

\* parser.py get_my_resumes: the responses it can give (the sort leaves the
\* order of equal uploaded_at open)
get_my_resumes(coll, user_email) ==
    IF user_email = "" THEN {HttpError(401)}
    ELSE {[status |-> 200, resumes |-> q, total_count |-> Len(q)] :
            q \in SortedDescending({coll[i] : i \in {k \in 1..Len(coll) :
                                        coll[k]["uploaded_by"] = user_email}},
                                   "uploaded_at")}

(***************************************************************************)
(* The authentication specification: register calls served by concurrent   *)
(* worker threads, and one client that logs in, logs out and calls         *)
(* endpoints with its session cookie                                       *)
(***************************************************************************)
MaxAccounts == 2

Emails == {"", Alice, Bob}
GoodPassword == "pw"
Passwords == {GoodPassword, "guess"}

Inserting == {t \in Threads : register_calls[t].pc = "insert"}

InitAuth ==
    /\ ServiceIdle
    /\ LiveIdle
    /\ collection = Uploaded(<<[by |-> Alice, age |-> 1, skills |-> SkillList(1),
                                experience_count |-> 1, education_count |-> 1],
                               [by |-> Bob, age |-> 0, skills |-> SkillList(1),
                                experience_count |-> 1, education_count |-> 1]>>)
    /\ request = [op |-> "none"]
    /\ response = NoResponse
    /\ renormalized = NotRun
    /\ now = Noon

\* POST /register, up to the answer of find_one
RegisterFind ==
    /\ Len(users) + Cardinality(Inserting) < MaxAccounts
    /\ \E t \in Threads, e \in Emails :
        /\ register_calls[t].pc = "idle"
        /\ register_calls' =
             [register_calls EXCEPT
                ![t] = register_find(users, [email |-> e, password |-> GoodPassword])]
    /\ UNCHANGED <<collection, request, response, renormalized, now, users, session,
                   last_login, disk, live>>

\* POST /register, the insert and the answer
RegisterInsert ==
    /\ \E t \in Inserting :
        /\ users' = register_insert(users, register_calls[t].user)
        /\ register_calls' = [register_calls EXCEPT ![t] = [pc |-> "idle", status |-> 200]]
    /\ UNCHANGED <<collection, request, response, renormalized, now, session, last_login, disk, live>>

\* POST /login
Login ==
    /\ \E e \in Emails, p \in Passwords :
        /\ request' = [op |-> "login", email |-> e, password |-> p]
        /\ response' = login(users, session, [email |-> e, password |-> p]).response
        /\ session' = login(users, session, [email |-> e, password |-> p]).session
        /\ last_login' =
             IF login(users, session, [email |-> e, password |-> p]).response.status = 200
             THEN [login |-> TRUE, email |-> e]
             ELSE last_login
    /\ UNCHANGED <<collection, renormalized, now, users, register_calls, disk, live>>

\* POST /logout
Logout ==
    /\ request' = [op |-> "logout"]
    /\ response' = logout(session).response
    /\ session' = logout(session).session
    /\ last_login' = NoLogin
    /\ UNCHANGED <<collection, renormalized, now, users, register_calls, disk, live>>

\* GET /me
GetLoggedInUser ==
    /\ request' = [op |-> "me"]
    /\ response' = get_logged_in_user(session)
    /\ UNCHANGED <<collection, renormalized, now, service, live>>

\* GET /my-resumes/
GetMyResumes ==
    /\ request' = [op |-> "my_resumes"]
    /\ response' \in get_my_resumes(collection, get_current_user(session))
    /\ UNCHANGED <<collection, renormalized, now, service, live>>

NextAuth ==
    \/ RegisterFind
    \/ RegisterInsert
    \/ Login
    \/ Logout
    \/ GetLoggedInUser
    \/ GetMyResumes

SpecAuth == InitAuth /\ [][NextAuth]_vars

(***************************************************************************)
(* Properties of the authentication endpoints                              *)
(***************************************************************************)
\* C15: the user store holds at most one account per email, whatever the
\* interleaving of the register calls, and a register call for an email
\* that is registered does not go on to insert
C15_UniqueEmails ==
    /\ \A i, j \in 1..Len(users) : i # j => users[i].email # users[j].email
    /\ \A t \in Inserting : find_one_user(users, register_calls[t].user.email) = NoAccount

\* C16: "who am I" returns E, and a protected endpoint acts as E, exactly
\* when the client's latest successful login was for E and no logout
\* followed it; otherwise both answer 401.  A login succeeds only with the
\* password of a registered account, answers 401 otherwise, and the session
\* always holds the email of that latest login
C16_SessionFollowsLogin ==
    /\ Served("me") =>
          IF last_login = NoLogin THEN response.status = 401
          ELSE response = [status |-> 200, email |-> last_login.email]
    /\ Served("my_resumes") =>
          IF last_login = NoLogin THEN response.status = 401
          ELSE /\ response.status = 200
               /\ response.total_count = Len(OwnRecords(last_login.email))
               /\ \A i \in 1..Len(response.resumes) :
                      response.resumes[i]["uploaded_by"] = last_login.email
    /\ Served("login") =>
          /\ response.status \in {200, 401}
          /\ response.status = 200 =>
                \E i \in 1..Len(users) :
                    users[i].email = request.email /\ request.password = GoodPassword
    /\ IF last_login = NoLogin THEN "user" \notin DOMAIN session
       ELSE session = [user |-> last_login.email]

(***************************************************************************)
(* parser.py upload_project_certificate                                    *)
(***************************************************************************)
\* line 446
ALLOWED_TYPES == {"application/pdf", "image/png", "image/jpeg", "image/jpg"}

\* os.path.splitext(filename)[1]: from the last dot on, empty when there is
\* no dot or only leading dots
SplitExt(filename) ==
    LET dots == {i \in 1..Len(filename) : filename[i] = "."}
        last == CHOOSE i \in dots : \A j \in dots : j <= i
    IN IF dots = {} THEN <<>>
       ELSE IF \A j \in 1..(last - 1) : filename[j] = "." THEN <<>>
       ELSE SubSeq(filename, last, Len(filename))

\* lines 458-460: uuid4().hex is a name no earlier file has
save_path(files, filename) ==
    [dir |-> "uploads/certificates", uuid |-> Cardinality(files) + 1, ext |-> SplitExt(filename)]

\* lines 468-472
cert_data(files, filename, utcnow) ==
    Dict([file_name |-> Str(filename),
          file_path |-> save_path(files, filename),
          uploaded_at |-> Num(utcnow)])

\* {"projects.project_title": project_title}: the positions in the projects
\* array of the elements with that title
MatchingProjects(doc, project_title) ==
    IF FieldPath(doc, <<"projects">>) = Missing THEN {}
    ELSE IF ~IsList(FieldPath(doc, <<"projects">>)) THEN {}
    ELSE {i \in 1..Len(doc["projects"].list) :
            /\ IsDict(doc["projects"].list[i])
            /\ "project_title" \in DOMAIN doc["projects"].list[i].dict
            /\ MatchIn(doc["projects"].list[i].dict["project_title"], {Str(project_title)})}

\* lines 476-479: the filter of update_one
certificate_match(doc, user_email, project_title) ==
    /\ doc["uploaded_by"] = user_email
    /\ MatchingProjects(doc, project_title) # {}

\* a variant of lines 480-484 with the all-positional operator "projects.$[]"
set_certificate_of_all(doc, position, data) ==
    [doc EXCEPT !["projects"] =
        List([i \in 1..Len(@.list) |-> Dict([k \in (DOMAIN @.list[i].dict) \cup {"certificate"} |->
                                                IF k = "certificate" THEN data
                                                ELSE @.list[i].dict[k]])])]

\* a variant of lines 480-484 that sets "projects.$.certificate.file_name"
\* and "projects.$.certificate.file_path" and leaves the other fields of a
\* certificate the project holds
set_certificate_name_and_path(doc, position, data) ==
    [doc EXCEPT !["projects"] =
        List([@.list EXCEPT ![position] =
                Dict([k \in (DOMAIN @.dict) \cup {"certificate"} |->
                        IF k # "certificate" THEN @.dict[k]
                        ELSE IF k \notin DOMAIN @.dict THEN data
                        ELSE IF ~IsDict(@.dict[k]) THEN data
                        ELSE Dict([f \in (DOMAIN @.dict[k].dict) \cup {"file_name", "file_path"} |->
                                    IF f \in {"file_name", "file_path"} THEN data.dict[f]
                                    ELSE @.dict[k].dict[f]])])])]

\* lines 480-484: {"$set": {"projects.$.certificate": cert_data}} on the
\* array element at the matched position
set_certificate(doc, position, data) ==
    [doc EXCEPT !["projects"] =
        List([@.list EXCEPT ![position] =
                Dict([k \in (DOMAIN @.dict) \cup {"certificate"} |->
                        IF k = "certificate" THEN data ELSE @.dict[k]])])]

\* lines 487-498 for the document update_one matched, None when it matched
\* none: the response and the collection left
certificate_response(coll, files, matched, updated) ==
    IF matched = 0 THEN [response |-> HttpError(404), collection |-> coll, disk |-> files]
    ELSE IF updated = coll[matched]
    THEN [response |-> HttpError(400), collection |-> coll, disk |-> files]
    ELSE [response |-> [status |-> 200,
                        file_path |-> updated["projects"].list[
                            CHOOSE i \in 1..Len(updated["projects"].list) :
                                updated["projects"].list[i] # coll[matched]["projects"].list[i]
                          ].dict["certificate"].dict["file_path"]],
          collection |-> [coll EXCEPT ![matched] = updated],
          disk |-> files]

\* the position "$" stands for: the first element of the projects array
\* that matches the filter
matched_position(doc, project_title) ==
    CHOOSE i \in MatchingProjects(doc, project_title) :
        \A j \in MatchingProjects(doc, project_title) : i <= j

\* lines 475-498 when update_one matches document m (0: it matches none)
certificate_update_of(coll, files, m, project_title, data) ==
    IF m = 0 THEN certificate_response(coll, files, 0, Null)
    ELSE certificate_response(
             coll, files, m,
             set_certificate(coll[m], matched_position(coll[m], project_title), data))

\* lines 475-485: update_one updates one of the documents that match the
\* filter (the first in the store's natural order, which no sort fixes), at
\* the first matching position of its projects array
certificate_update(coll, files, matches, project_title, data) ==
    IF matches = {} THEN {certificate_update_of(coll, files, 0, project_title, data)}
    ELSE {certificate_update_of(coll, files, m, project_title, data) : m \in matches}

\* upload_project_certificate, the whole handler: the outcomes it can have.
\* The file is written (lines 464-465) before the store is updated.
upload_project_certificate(coll, files, utcnow, user_email, project_title, content_type, filename, write_fails) ==
    IF user_email = "" THEN {[response |-> HttpError(401), collection |-> coll, disk |-> files]}
    ELSE IF content_type \notin ALLOWED_TYPES
    THEN {[response |-> HttpError(400), collection |-> coll, disk |-> files]}
    ELSE IF filename = <<>>
    THEN {[response |-> HttpError(400), collection |-> coll, disk |-> files]}
    ELSE IF write_fails
    THEN {[response |-> HttpError(500), collection |-> coll, disk |-> files]}
    ELSE certificate_update(
             coll, files \cup {save_path(files, filename)},
             {i \in 1..Len(coll) : certificate_match(coll[i], user_email, project_title)},
             project_title, cert_data(files, filename, utcnow))

(***************************************************************************)
(* parser.py rank_resumes                                                  *)
(***************************************************************************)
MaxLimit == 100
SkillsShown == 5
UNKNOWN == Str(<<"U", "n", "k", "n", "o", "w", "n">>)
CANDIDATE == Str(<<"C", "a", "n", "d", "i", "d", "a", "t", "e">>)

\* lines 136-145: the ranking returned when the LLM call throws
ErrorRanking ==
    Dict([overall_score |-> Num(0),
          criteria_scores |->
              Dict([skills_match |-> Num(0), experience_relevance |-> Num(0),
                    education_fit |-> Num(0), additional_qualifications |-> Num(0)]),
          analysis |-> Str(<<"e", "r", "r", "o", "r">>)])

\* lines 122-145
rank_resume_against_job(llm) ==
    IF llm.throws THEN ErrorRanking ELSE clean_json_output(llm.raw_text)

\* v[:n] of a list or string; TypeError for anything else
PySlice(v, n) ==
    IF IsList(v) THEN Ok(List(SubSeq(v.list, 1, Min(n, Len(v.list)))))
    ELSE IF IsStr(v) THEN Ok(Str(SubSeq(v.str, 1, Min(n, Len(v.str)))))
    ELSE Raised

\* d.get(k, default) of a value that may be no dict (AttributeError)
PyGet(d, k, default) == IF IsDict(d) THEN Ok(Get(d.dict, k, default)) ELSE Raised

\* line 349: the degree of the first education entry
first_degree(resume) ==
    IF ~Truthy(Get(resume, "education", List(<<Dict(EmptyDict)>>))) THEN Ok(EmptyStr)
    ELSE IF ~IsList(resume["education"]) THEN Raised
    ELSE PyGet(resume["education"].list[1], "degree", EmptyStr)

\* lines 332-351: the entry appended for a resume and its ranking result
ranking_entry(resume, ranking_result, skills, experience_years, education) ==
    IF ~IsDict(ranking_result) \/ skills.raised \/ experience_years.raised \/ education.raised
    THEN Raised
    ELSE IF ~IsDict(Get(resume, "personal_information", Dict(EmptyDict))) THEN Raised
    ELSE Ok([resume_id |-> resume["_id"],
             candidate_name |->
                 Get(Get(resume, "personal_information", Dict(EmptyDict)).dict,
                     "full_name", UNKNOWN),
             candidate_email |->
                 Get(Get(resume, "personal_information", Dict(EmptyDict)).dict,
                     "email", EmptyStr),
             overall_score |-> Get(ranking_result.dict, "overall_score", Num(0)),
             criteria_scores |-> Get(ranking_result.dict, "criteria_scores", Dict(EmptyDict)),
             analysis |-> Get(ranking_result.dict, "analysis", EmptyStr),
             skills |-> skills.v,
             experience_years |-> experience_years.v,
             education |-> education.v,
             uploaded_at |-> resume["uploaded_at"]])

\* lines 323-356, one iteration: Raised stands for `continue`
rank_one(resume, llm) ==
    IF ~Truthy(Get(resume, "original_text", EmptyStr)) THEN Raised
    ELSE ranking_entry(
             resume, rank_resume_against_job(llm),
             IF IsDict(Get(resume, "professional_summary", Dict(EmptyDict)))
             THEN PySlice(Get(Get(resume, "professional_summary", Dict(EmptyDict)).dict,
                              "skills", List(<<>>)),
                          SkillsShown)
             ELSE Raised,
             PyLen(Get(resume, "experience", List(<<>>))),
             first_degree(resume))

\* list.sort(key=overall_score, reverse=True): stable, by insertion
RECURSIVE SortByScore(_)
SortByScore(rankings) ==
    IF rankings = <<>> THEN <<>>
    ELSE LET rest == SortByScore(Tail(rankings))
             ahead == {i \in 1..Len(rest) : rest[i].overall_score.num > rankings[1].overall_score.num}
         IN SubSeq(rest, 1, Cardinality(ahead)) \o <<rankings[1]>>
                \o SubSeq(rest, Cardinality(ahead) + 1, Len(rest))

\* lines 358-374 for the rankings collected.  The scores of the model are
\* numbers or null; comparing a null raises TypeError, which nothing catches.
rank_resumes_respond(user_resumes, rankings, limit) ==
    IF Len(rankings) > 1 /\ \E i \in 1..Len(rankings) : ~IsNum(rankings[i].overall_score)
    THEN Unhandled
    ELSE [status |-> 200,
          rankings |-> IF limit # 0
                       THEN SubSeq(SortByScore(rankings), 1, Min(limit, Len(rankings)))
                       ELSE SortByScore(rankings),
          total_resumes |-> Len(user_resumes),
          successful_rankings |-> Len(rankings)]

\* lines 320-356: the loop, answers[i] being what the LLM does for resume i
rank_resumes_loop(user_resumes, answers, limit) ==
    rank_resumes_respond(
        user_resumes,
        LET results == [i \in 1..Len(user_resumes) |-> rank_one(user_resumes[i], answers[i])]
            ranked == SelectSeq(results, LAMBDA r : ~r.raised)
        IN [i \in 1..Len(ranked) |-> ranked[i].v],
        limit)

\* rank_resumes, the whole handler
rank_resumes(coll, user_email, job_description, limit, answers) ==
    IF user_email = "" THEN HttpError(401)
    ELSE IF Strip(job_description) = <<>> THEN HttpError(400)
    ELSE IF limit # 0 /\ (limit < 1 \/ limit > MaxLimit) THEN HttpError(400)
    ELSE IF SelectSeq(coll, LAMBDA d : d["uploaded_by"] = user_email) = <<>> THEN HttpError(404)
    ELSE rank_resumes_loop(SelectSeq(coll, LAMBDA d : d["uploaded_by"] = user_email),
                           answers, limit)

(***************************************************************************)
(* parser.py generate_questions                                            *)
(***************************************************************************)
PromptSkills == 10

\* lines 167-173, 176-182: the fixed list
CannedQuestions ==
    List(<<Str(<<"q", "1">>), Str(<<"q", "2">>), Str(<<"q", "3">>), Str(<<"q", "4">>),
           Str(<<"q", "5">>)>>)

\* ", ".join(v): needs an iterable of strings
PyJoinable(v) ==
    \/ IsStr(v)
    \/ IsList(v) /\ \A i \in 1..Len(v.list) : IsStr(v.list[i])

\* lines 149-158: the prompt is built outside the try block
questions_prompt(resume) ==
    IF ~IsDict(Get(resume, "personal_information", Dict(EmptyDict))) THEN Raised
    ELSE IF ~IsDict(Get(resume, "professional_summary", Dict(EmptyDict))) THEN Raised
    ELSE IF PySlice(Get(resume["professional_summary"].dict, "skills", List(<<>>)),
                    PromptSkills).raised
    THEN Raised
    ELSE IF ~PyJoinable(PySlice(Get(resume["professional_summary"].dict, "skills", List(<<>>)),
                                PromptSkills).v)
    THEN Raised
    ELSE IF Truthy(Get(resume, "experience", List(<<>>)))
            /\ ~IsList(Get(resume, "experience", List(<<>>)))
            /\ ~IsStr(Get(resume, "experience", List(<<>>)))
    THEN Raised
    ELSE Ok(resume["_id"])

\* lines 160-182
generate_screening_questions(resume, llm) ==
    IF questions_prompt(resume).raised THEN Raised
    ELSE IF llm.throws THEN Ok(CannedQuestions)
    ELSE IF PyGet(clean_json_output(llm.raw_text), "questions", CannedQuestions).raised
    THEN Ok(CannedQuestions)
    ELSE PyGet(clean_json_output(llm.raw_text), "questions", CannedQuestions)

\* lines 403-416 for the resume found
questions_respond(resume, resume_id, questions) ==
    IF questions.raised THEN HttpError(500)
    ELSE IF PyLen(questions.v).raised THEN HttpError(500)
    ELSE [status |-> 200,
          candidate_name |->
              Get(Get(resume, "personal_information", Dict(EmptyDict)).dict,
                  "full_name", CANDIDATE),
          resume_id |-> resume_id,
          questions |-> questions.v,
          total_questions |-> PyLen(questions.v).v]

\* generate_questions, the whole handler; resume_id.valid is
\* ObjectId.is_valid(resume_id), resume_id.id the _id it denotes
generate_questions(coll, user_email, resume_id, job_description, llm) ==
    IF user_email = "" THEN HttpError(401)
    ELSE IF ~resume_id.valid THEN HttpError(400)
    ELSE IF Strip(job_description) = <<>> THEN HttpError(400)
    ELSE IF SelectSeq(coll, LAMBDA d : d["_id"] = resume_id.id /\ d["uploaded_by"] = user_email)
                = <<>>
    THEN HttpError(404)
    ELSE questions_respond(
             SelectSeq(coll, LAMBDA d : d["_id"] = resume_id.id
                                        /\ d["uploaded_by"] = user_email)[1],
             resume_id,
             generate_screening_questions(
                 SelectSeq(coll, LAMBDA d : d["_id"] = resume_id.id
                                            /\ d["uploaded_by"] = user_email)[1],
                 llm))

(***************************************************************************)
(* The records specification: a client that logs in as one of two          *)
(* registered users, uploads resumes and certificates and reads the store  *)
(***************************************************************************)
MaxRecords == 2
MaxCertificates == 1

Title1 == <<"t", "1">>
Title2 == <<"t", "2">>
Title3 == <<"t", "3">>

ProjectTitled(title) == Dict([BaseProject EXCEPT !.project_title = Str(title)])

\* what the LLM returns for an upload: a resume with two projects of one
\* title, or of two titles; or nothing that parses
RecordLlms ==
    {LlmReturns("none", Dict([BaseDoc EXCEPT !.projects = List(projects)])) :
        projects \in {<<ProjectTitled(Title1), ProjectTitled(Title1)>>,
                      <<ProjectTitled(Title2), ProjectTitled(Title1)>>}}
    \cup {LlmThrows}

InitRecords ==
    /\ users = <<[email |-> Alice, password |-> hash_password(GoodPassword)],
                 [email |-> Bob, password |-> hash_password(GoodPassword)]>>
    /\ session = EmptyDict
    /\ register_calls = [t \in Threads |-> Idle]
    /\ last_login = NoLogin
    /\ disk = {}
    /\ LiveIdle
    /\ collection = <<>>
    /\ request = [op |-> "none"]
    /\ response = NoResponse
    /\ renormalized = NotRun
    /\ now = Noon

\* POST /parse-resume/ by the client; a stamp passes before the next request
\* when a record was stored
UploadResume ==
    /\ Len(collection) < MaxRecords
    /\ \E llm \in RecordLlms :
        /\ request' = [op |-> "parse_resume", user |-> get_current_user(session), llm |-> llm]
        /\ response' =
             parse_resume([BaseRequest EXCEPT !.session_user = get_current_user(session),
                                              !.llm = llm],
                          collection, now).response
        /\ collection' =
             parse_resume([BaseRequest EXCEPT !.session_user = get_current_user(session),
                                              !.llm = llm],
                          collection, now).collection
    /\ now' = now + (Len(collection') - Len(collection))
    /\ UNCHANGED <<renormalized, service, live>>

CertificateUploads ==
    {[op |-> "upload_certificate", project_title |-> title, content_type |-> "application/pdf",
      filename |-> <<"c", ".", "p", "d", "f">>, write_fails |-> FALSE] :
        title \in {Title1, Title2, Title3}}
    \cup {[op |-> "upload_certificate", project_title |-> Title1, content_type |-> "text/plain",
           filename |-> <<"c", ".", "t", "x", "t">>, write_fails |-> FALSE],
          [op |-> "upload_certificate", project_title |-> Title1, content_type |-> "image/png",
           filename |-> <<>>, write_fails |-> FALSE],
          [op |-> "upload_certificate", project_title |-> Title1, content_type |-> "image/jpeg",
           filename |-> <<"c", ".", "j", "p", "g">>, write_fails |-> TRUE]}

\* POST /project/upload-certificate by the client
UploadProjectCertificate ==
    /\ Cardinality(disk) < MaxCertificates
    /\ \E r \in CertificateUploads :
        /\ request' = [r EXCEPT !.op = "upload_certificate"] @@ [user |-> get_current_user(session)]
        /\ \E outcome \in upload_project_certificate(
                              collection, disk, now, get_current_user(session),
                              r.project_title, r.content_type, r.filename, r.write_fails) :
            /\ response' = outcome.response
            /\ collection' = outcome.collection
            /\ disk' = outcome.disk
    /\ UNCHANGED <<renormalized, now, users, session, register_calls, last_login, live>>

JobDescription == <<"d", "e", "v">>

\* what the LLM does when asked to rank a resume: it throws, returns text
\* that is no JSON, a JSON list, or a ranking with a score (a number or null)
RankingOf(score) ==
    LlmReturns("none", Dict([overall_score |-> score, criteria_scores |-> Dict(EmptyDict),
                             analysis |-> SomeText]))
RankLlms ==
    {LlmThrows, LlmReturns("none", NotJson), LlmReturns("fence_json", List(<<>>)),
     RankingOf(Num(40)), RankingOf(Num(85)), RankingOf(Null)}

\* the LLM ranks the first resume 40 and the others in any of its ways
RankAnswers ==
    {[i \in 1..MaxRecords |-> IF i = 1 THEN RankingOf(Num(40)) ELSE l] : l \in RankLlms}

\* limit is 10 when the form does not give it
RankRequests ==
    {[op |-> "rank_resumes", job_description |-> JobDescription, limit |-> 10, answers |-> a] :
        a \in RankAnswers}
    \cup {[op |-> "rank_resumes", job_description |-> jd, limit |-> n,
           answers |-> [i \in 1..MaxRecords |-> RankingOf(Num(40 * i))]] :
            jd \in {JobDescription}, n \in {-1, 0, 1, MaxLimit + 1}}
    \cup {[op |-> "rank_resumes", job_description |-> <<" ">>, limit |-> 10,
           answers |-> [i \in 1..MaxRecords |-> LlmThrows]]}

\* POST /rank-resumes/ by the client
RankResumes ==
    /\ \E r \in RankRequests :
        /\ request' = r @@ [user |-> get_current_user(session)]
        /\ response' = rank_resumes(collection, get_current_user(session), r.job_description,
                                    r.limit, r.answers)
    /\ UNCHANGED <<collection, renormalized, now, service, live>>

\* what the LLM does when asked for questions: it throws, returns text that
\* is no JSON, a JSON list, an object without questions, or an object whose
\* questions are a list of five, an empty list, null or a string
QuestionLlms ==
    {LlmThrows, LlmReturns("none", NotJson), LlmReturns("none", List(<<>>)),
     LlmReturns("none", Dict(EmptyDict))}
    \cup {LlmReturns("none", Dict([questions |-> q])) :
            q \in {List([i \in 1..5 |-> SomeText]), List(<<>>), Null, SomeText}}

QuestionRequests ==
    {[op |-> "generate_questions", resume_id |-> [valid |-> TRUE, id |-> id],
      job_description |-> JobDescription, llm |-> llm] :
        id \in {1}, llm \in QuestionLlms}
    \cup {[op |-> "generate_questions", resume_id |-> id, job_description |-> jd,
           llm |-> LlmThrows] :
            id \in {[valid |-> FALSE, id |-> 0], [valid |-> TRUE, id |-> MaxRecords + 1]},
            jd \in {<<>>, JobDescription}}

\* POST /generate-questions/ by the client
GenerateQuestions ==
    /\ \E r \in QuestionRequests :
        /\ request' = r @@ [user |-> get_current_user(session)]
        /\ response' = generate_questions(collection, get_current_user(session), r.resume_id,
                                          r.job_description, r.llm)
    /\ UNCHANGED <<collection, renormalized, now, service, live>>

\* the analytics endpoints called by the client with their default parameters
AnalyticsResponses(op, coll, utcnow, user_email) ==
    CASE op = "ranking_performance" -> {get_ranking_performance(coll, utcnow, user_email, 0, 0)}
      [] op = "recruitment_metrics" ->
            {get_recruitment_metrics(coll, utcnow, user_email, 30, {}, 0, 100, {})}
      [] op = "filtered_resumes" ->
            get_filtered_resumes(coll, user_email, {}, {}, {}, {}, 0, 100, 50)
      [] op = "skills_analysis" -> get_skills_analysis(coll, utcnow, user_email, 20, "", 1)
      [] op = "ws_analytics" -> {websocket_endpoint(coll, utcnow)}

\* GET /analytics/..., /ws/analytics by the client
GetAnalytics ==
    /\ \E op \in {"ranking_performance", "recruitment_metrics", "filtered_resumes",
                  "skills_analysis", "ws_analytics"} :
        /\ request' = [op |-> op, user |-> get_current_user(session)]
        /\ response' \in AnalyticsResponses(op, collection, now, get_current_user(session))
    /\ UNCHANGED <<collection, renormalized, now, service, live>>

NextRecords ==
    \/ Login
    \/ Logout
    \/ UploadResume
    \/ UploadProjectCertificate
    \/ GetMyResumes
    \/ RankResumes
    \/ GenerateQuestions
    \/ GetAnalytics

SpecRecords == InitRecords /\ [][NextRecords]_vars

(***************************************************************************)
(* Properties of the record store                                          *)
(***************************************************************************)
\* the stored records whose project of the request's title holds the
\* certificate the response names
LinkedRecords ==
    {i \in 1..Len(collection) :
        \E p \in MatchingProjects(collection[i], request.project_title) :
            /\ "certificate" \in DOMAIN collection[i]["projects"].list[p].dict
            /\ IsDict(collection[i]["projects"].list[p].dict["certificate"])
            /\ collection[i]["projects"].list[p].dict["certificate"].dict["file_path"]
                  = response.file_path}

\* C17: a successful upload_project_certificate links the certificate into
\* the caller's most recently uploaded record that has a project of the title
C17_LinksMostRecent ==
    (Served("upload_certificate") /\ response.status = 200) =>
        /\ LinkedRecords # {}
        /\ \A i \in LinkedRecords :
              \A j \in 1..Len(collection) :
                  certificate_match(collection[j], request.user, request.project_title)
                      => collection[j]["uploaded_at"] <= collection[i]["uploaded_at"]

\* C18: a step of upload_project_certificate that answers 404 leaves every
\* record as it was and no new file on disk
C18_NotFoundChangesNothing ==
    [][(request'.op = "upload_certificate" /\ response'.status = 404)
          => (collection' = collection /\ disk' = disk)]_vars

ReadOnlyOps ==
    {"rank_resumes", "generate_questions", "my_resumes", "ranking_performance",
     "recruitment_metrics", "filtered_resumes", "skills_analysis", "ws_analytics", "login",
     "logout"}

\* the positions at which two lists of equal length differ
Differing(a, b) == {i \in 1..Len(a) : a[i] # b[i]}

\* the record after differs from the record before in the certificate of
\* exactly one project and in nothing else
OnlyOneCertificateDiffers(before, after) ==
    /\ DOMAIN after = DOMAIN before
    /\ \A k \in (DOMAIN before) \ {"projects"} : after[k] = before[k]
    /\ IsList(before["projects"]) /\ IsList(after["projects"])
    /\ Len(after["projects"].list) = Len(before["projects"].list)
    /\ Cardinality(Differing(before["projects"].list, after["projects"].list)) = 1
    /\ \A p \in Differing(before["projects"].list, after["projects"].list) :
          /\ DOMAIN after["projects"].list[p].dict
                = (DOMAIN before["projects"].list[p].dict) \cup {"certificate"}
          /\ \A k \in (DOMAIN before["projects"].list[p].dict) \ {"certificate"} :
                after["projects"].list[p].dict[k] = before["projects"].list[p].dict[k]

\* C20: no step deletes a stored record; a step changes an existing record
\* only if it is upload_project_certificate, and then one record only, in
\* the certificate of one of its projects; ranking, question generation,
\* listing, analytics, login and logout leave the store as it is
C20_RecordsImmutable ==
    [][/\ Len(collection') >= Len(collection)
       /\ \A i \in 1..Len(collection) :
             \/ collection'[i] = collection[i]
             \/ /\ request'.op = "upload_certificate"
                /\ OnlyOneCertificateDiffers(collection[i], collection'[i])
       /\ Cardinality(Differing(collection, SubSeq(collection', 1, Len(collection)))) <= 1
       /\ request'.op \in ReadOnlyOps => collection' = collection]_vars

\* an upload_project_certificate has changed the certificate of a project
\* in a record that holds two projects of the title, while another record
\* is stored
C20_Witness ==
    /\ Served("upload_certificate")
    /\ response.status = 200
    /\ Len(collection) = MaxRecords
    /\ \E i \in 1..Len(collection) :
          /\ Cardinality(MatchingProjects(collection[i], request.project_title)) = 2
          /\ \E p \in MatchingProjects(collection[i], request.project_title) :
                collection[i]["projects"].list[p].dict["certificate"].dict["file_path"]
                    = response.file_path

(***************************************************************************)
(* Properties of the upload handler: rejected files                        *)
(***************************************************************************)
\* the type a content type names: "application/pdf", the two Word types, or
\* any type starting with "text/"
TypeOfContent(content_type) ==
    IF content_type = "application/pdf" THEN "pdf"
    ELSE IF content_type \in {"application/msword",
                              "application/vnd.openxmlformats-officedocument.wordprocessingml.document"}
    THEN "docx"
    ELSE IF content_type \in {"text/plain", "text/markdown"} THEN "txt"
    ELSE "none"

\* the type a filename's extension names, letter case and surrounding blanks
\* ignored
TypeOfExtension(filename) ==
    LET name == Lower(Strip(filename)) IN
    IF EndsWith(name, <<".", "p", "d", "f">>) THEN "pdf"
    ELSE IF EndsWith(name, <<".", "d", "o", "c", "x">>) \/ EndsWith(name, <<".", "d", "o", "c">>)
    THEN "docx"
    ELSE IF EndsWith(name, <<".", "t", "x", "t">>) THEN "txt"
    ELSE "none"

\* the file of the request is none of PDF, DOCX and TXT, by its content type
\* first and, failing that, by its filename extension
UnsupportedFile ==
    /\ TypeOfContent(request.content_type) = "none"
    /\ TypeOfExtension(request.filename) = "none"

\* the text extracted from the request's file is empty or shorter than 100
\* characters after trimming
ShortText == request.file.text_len < 100

\* C21: parse_resume answers with a 4xx error and stores no record when the
\* extracted text is empty or shorter than 100 characters after trimming, or
\* when the file is none of PDF, DOCX and TXT by content type and, failing
\* that, by filename extension
C21_RejectsUnreadable ==
    (response # NoResponse /\ (ShortText \/ UnsupportedFile))
        => (response.status \in 400..499 /\ collection = <<>>)

\* an upload of a file of an unsupported type with a long enough text, from a
\* logged-in caller, was answered; and so was one of a supported type with a
\* text one character short
C21_Witness ==
    /\ response # NoResponse
    /\ request.session_user # ""
    /\ request.filename # <<>>
    /\ ~request.file.unreadable
    /\ \/ UnsupportedFile /\ ~ShortText /\ request.filename # FILE_LITERAL
       \/ ~UnsupportedFile /\ request.file.text_len = 99

(***************************************************************************)
(* Properties of rank_resumes                                              *)
(***************************************************************************)
\* the scores of the entries never increase along the list
RankingsSorted(rankings) ==
    \A i, j \in 1..Len(rankings) :
        i < j => /\ IsNum(rankings[i].overall_score)
                 /\ IsNum(rankings[j].overall_score)
                 /\ rankings[i].overall_score.num >= rankings[j].overall_score.num

\* C22: for every accepted rank_resumes request, the returned rankings are
\* sorted by overall_score in non-increasing order and hold at most `limit`
\* entries
C22_SortedWithinLimit ==
    (request.op = "rank_resumes" /\ response.status = 200)
        => /\ RankingsSorted(response.rankings)
           /\ Len(response.rankings) <= request.limit

\* the records of the caller of the request, in the order of the store
CallersResumes == SelectSeq(collection, LAMBDA d : d["uploaded_by"] = request.user)

\* the LLM call for the caller's i-th resume throws or returns text that is
\* no JSON
RankingFails(i) ==
    IF request.answers[i].throws THEN TRUE ELSE request.answers[i].raw_text.body = NotJson

SubScores == {"skills_match", "experience_relevance", "education_fit", "additional_qualifications"}

\* a zero-score record: overall_score 0, the four named sub-scores and an
\* analysis text
ZeroScoreRecord(entry) ==
    /\ entry.overall_score = Num(0)
    /\ IsDict(entry.criteria_scores)
    /\ SubScores \subseteq DOMAIN entry.criteria_scores.dict
    /\ IsStr(entry.analysis)
    /\ entry.analysis.str # <<>>

\* a rank_resumes request that passes the checks of the handler, with room
\* for every resume of the caller, for one of which the LLM call fails
RankingWithFailure ==
    /\ request.op = "rank_resumes"
    /\ request.user # ""
    /\ Strip(request.job_description) # <<>>
    /\ request.limit \in 1..100
    /\ CallersResumes # <<>>
    /\ Len(CallersResumes) <= request.limit
    /\ \E i \in 1..Len(CallersResumes) : RankingFails(i)

\* C23: when the LLM call for one resume throws or returns unparseable
\* output, that resume is in the result as a zero-score record with
\* overall_score 0, the four named sub-scores and an analysis text, and every
\* other resume of the batch is ranked too
C23_FailureStillRanked ==
    RankingWithFailure
        => /\ response.status = 200
           /\ \A i \in 1..Len(CallersResumes) :
                \E k \in 1..Len(response.rankings) :
                    /\ response.rankings[k].resume_id = CallersResumes[i]["_id"]
                    /\ RankingFails(i) => ZeroScoreRecord(response.rankings[k])

\* C28: rank_resumes rejects with 400 every request whose limit is not
\* between 1 and 100, the values 0 and below included
C28_LimitChecked ==
    (request.op = "rank_resumes" /\ request.user # "" /\ request.limit \notin 1..100)
        => response.status = 400

(***************************************************************************)
(* Properties of generate_questions                                        *)
(***************************************************************************)
\* a generate_questions request that passes the checks of the handler and
\* names a record of the caller
QuestionsAccepted ==
    /\ request.op = "generate_questions"
    /\ request.user # ""
    /\ request.resume_id.valid
    /\ Strip(request.job_description) # <<>>
    /\ \E i \in 1..Len(collection) :
          /\ collection[i]["_id"] = request.resume_id.id
          /\ collection[i]["uploaded_by"] = request.user

\* the LLM call of the request returned a JSON object whose "questions" is a
\* non-empty list
UsableQuestions ==
    IF request.llm.throws THEN FALSE
    ELSE /\ IsDict(request.llm.raw_text.body)
         /\ "questions" \in DOMAIN request.llm.raw_text.body.dict
         /\ IsList(request.llm.raw_text.body.dict["questions"])
         /\ request.llm.raw_text.body.dict["questions"].list # <<>>

\* C24: every accepted generate_questions request is answered with a list of
\* questions: the model's when it returns a usable list, and otherwise (the
\* call fails, the output does not parse, the key is missing, the list is
\* empty or the value is no list) the fixed list of 5
C24_QuestionsOrCanned ==
    QuestionsAccepted
        => /\ response.status = 200
           /\ IsList(response.questions)
           /\ IF UsableQuestions
              THEN response.questions = request.llm.raw_text.body.dict["questions"]
              ELSE response.questions = CannedQuestions /\ response.total_questions = 5

(***************************************************************************)
(* Properties of the LLM adapter                                           *)
(***************************************************************************)
\* the upload got as far as the call of the LLM adapter
CalledAdapter ==
    /\ response # NoResponse
    /\ request.session_user # ""
    /\ request.filename # <<>>
    /\ extract_text_from_resume(request.filename, request.content_type, request.file).status = 200
    /\ request.file.text_len >= MinTextLen

\* the model's raw text is a JSON object, bare or wrapped in a code fence
\* with the tag json or with no tag
ObjectInFence ==
    IF request.llm.throws THEN FALSE
    ELSE /\ request.llm.raw_text.open \in {"none", "fence_json", "fence"}
         /\ IsDict(request.llm.raw_text.body)

\* C25: the LLM adapter always returns a mapping: the JSON object of the raw
\* text, fenced or not, and the empty mapping when the call throws or the
\* text is anything else (no JSON, or JSON that is no object)
C25_AdapterReturnsMapping ==
    CalledAdapter
        => /\ IsDict(LlmData)
           /\ LlmData = (IF ObjectInFence THEN request.llm.raw_text.body ELSE Dict(EmptyDict))

(***************************************************************************)
(* analytics.py ConnectionManager and the handler of /ws/analytics         *)
(***************************************************************************)
\* A WebSocket is "unopened", "open" (accepted, its handler in the loop of
\* lines 52-62), "closed" (the client's end has closed, cleanly or abruptly,
\* while the handler sleeps or waits), "ended" (the handler returned from its
\* except clause) or "crashed" (the handler ended by an exception it does not
\* catch).

\* lines 32-34: ConnectionManager.connect
connect(connections, websocket) == Append(connections, websocket)

\* lines 36-37: ConnectionManager.disconnect, list.remove of an element the
\* list holds once
disconnect(connections, websocket) == SelectSeq(connections, LAMBDA w : w # websocket)

\* what send_text raises on a socket whose client has gone: the
\* WebSocketDisconnect of the framework or, with other versions of the server
\* libraries, an exception of another class
SendFailures == {"WebSocketDisconnect", "other"}

\* lines 50-65 when send_text raises exc: the list and the handler's state left
websocket_send_failed(connections, websocket, exc) ==
    IF exc = "WebSocketDisconnect"
    THEN [active_connections |-> disconnect(connections, websocket), state |-> "ended"]
    ELSE [active_connections |-> connections, state |-> "crashed"]

(***************************************************************************)
(* The live-update specification: clients open WebSockets, receive         *)
(* snapshots and close                                                     *)
(***************************************************************************)
InitLive ==
    /\ collection = <<>>
    /\ request = [op |-> "none"]
    /\ response = NoResponse
    /\ renormalized = NotRun
    /\ now = Noon
    /\ ServiceIdle
    /\ LiveIdle

\* a client opens /ws/analytics: line 50
WsConnect ==
    /\ \E w \in Sockets :
        /\ sockets[w] = "unopened"
        /\ active_connections' = connect(active_connections, w)
        /\ sockets' = [sockets EXCEPT ![w] = "open"]
        /\ request' = [op |-> "ws_connect", socket |-> w]
        /\ response' = [status |-> SwitchingProtocols]
    /\ UNCHANGED <<collection, renormalized, now, service, certificate_calls, applied>>

\* one round of the loop of lines 52-62 on an open socket
WsPush ==
    /\ \E w \in Sockets :
        /\ sockets[w] = "open"
        /\ request' = [op |-> "ws_push", socket |-> w]
        /\ response' = websocket_endpoint(collection, now)
    /\ UNCHANGED <<collection, renormalized, now, service, live>>

\* the client's end closes, cleanly or abruptly; the handler, which never
\* receives, does not see it
WsClientCloses ==
    /\ \E w \in Sockets :
        /\ sockets[w] = "open"
        /\ sockets' = [sockets EXCEPT ![w] = "closed"]
        /\ request' = [op |-> "ws_close", socket |-> w]
    /\ UNCHANGED <<collection, response, renormalized, now, service, active_connections,
                   certificate_calls, applied>>

\* the next round of the loop on a socket whose client has gone: send_text
\* raises
WsPushFails ==
    /\ \E w \in Sockets, exc \in SendFailures :
        /\ sockets[w] = "closed"
        /\ active_connections' = websocket_send_failed(active_connections, w, exc).active_connections
        /\ sockets' = [sockets EXCEPT ![w] = websocket_send_failed(active_connections, w, exc).state]
        /\ request' = [op |-> "ws_push", socket |-> w]
        /\ response' = [status |-> 0, raised |-> exc]
    /\ UNCHANGED <<collection, renormalized, now, service, certificate_calls, applied>>

NextLive == WsConnect \/ WsPush \/ WsClientCloses \/ WsPushFails

SpecLive == InitLive /\ [][NextLive]_vars

(***************************************************************************)
(* Properties of the live-update channel                                   *)
(***************************************************************************)
\* the sockets in the active-connection set
ActiveSet == {active_connections[i] : i \in 1..Len(active_connections)}

\* C26: every connection added to the active-connection set on connect is
\* removed from it once the client's connection has closed and the push that
\* follows has failed, whatever the failure: the set holds no socket whose
\* handler has finished, and is empty after all clients have disconnected
C26_ClosedConnectionsRemoved ==
    /\ \A w \in Sockets : sockets[w] \in {"ended", "crashed"} => w \notin ActiveSet
    /\ (\A w \in Sockets : sockets[w] \in {"ended", "crashed"}) => active_connections = <<>>

(***************************************************************************)
(* The concurrent-certificates specification: one caller, two              *)
(* upload_project_certificate requests for one project title served by two *)
(* worker threads                                                          *)
(***************************************************************************)
\* the store after the uploads of resumes for which the LLM returned llms
RECURSIVE StoreAfter(_)
StoreAfter(llms) ==
    IF llms = <<>> THEN <<>>
    ELSE parse_resume([BaseRequest EXCEPT !.llm = llms[Len(llms)]],
                      StoreAfter(SubSeq(llms, 1, Len(llms) - 1)),
                      Noon - (3 - Len(llms))).collection

\* one or two resumes of the caller, each with a project titled Title1
CertificateStores ==
    {StoreAfter(llms) : llms \in {<<l>> : l \in RecordLlms \ {LlmThrows}}
                                \cup {<<l1, l2>> : l1, l2 \in RecordLlms \ {LlmThrows}}}

\* the certificate files of the two requests
CertificateFiles ==
    {[content_type |-> "application/pdf", filename |-> <<"c", ".", "p", "d", "f">>],
     [content_type |-> "image/png", filename |-> <<"c", ".", "p", "n", "g">>]}

InitCertificates ==
    /\ users = <<[email |-> Alice, password |-> hash_password(GoodPassword)]>>
    /\ session = login(users, EmptyDict, [email |-> Alice, password |-> GoodPassword]).session
    /\ register_calls = [t \in Threads |-> Idle]
    /\ last_login = [login |-> TRUE, email |-> Alice]
    /\ disk = {}
    /\ LiveIdle
    /\ collection \in CertificateStores
    /\ request = [op |-> "none"]
    /\ response = NoResponse
    /\ renormalized = NotRun
    /\ now = Noon

\* lines 445-472 on a thread: the checks, the file written, cert_data built
CertificatePrepare ==
    /\ \E t \in Threads, file \in CertificateFiles :
        /\ certificate_calls[t].pc = "idle"
        /\ certificate_calls[t].status = 0
        /\ get_current_user(session) # ""
        /\ file.content_type \in ALLOWED_TYPES
        /\ file.filename # <<>>
        /\ disk' = disk \cup {save_path(disk, file.filename)}
        /\ certificate_calls' =
             [certificate_calls EXCEPT ![t] =
                [pc |-> "update", status |-> 0, user_email |-> get_current_user(session),
                 project_title |-> Title1,
                 data |-> cert_data(disk, file.filename, now)]]
        /\ request' = [op |-> "upload_certificate", thread |-> t, project_title |-> Title1,
                       content_type |-> file.content_type, filename |-> file.filename,
                       user |-> get_current_user(session)]
    /\ response' = NoResponse
    /\ now' = now + 1
    /\ UNCHANGED <<collection, renormalized, users, session, register_calls, last_login,
                   active_connections, sockets, applied>>

\* the documents the filter of a thread's update_one matches now
CertificateMatches(t) ==
    {i \in 1..Len(collection) :
        certificate_match(collection[i], certificate_calls[t].user_email,
                          certificate_calls[t].project_title)}

\* lines 475-498 on a thread: update_one, applied by the store in one step,
\* and the response
CertificateUpdate ==
    /\ \E t \in Threads :
        /\ certificate_calls[t].pc = "update"
        /\ \E m \in CertificateMatches(t) \cup (IF CertificateMatches(t) = {} THEN {0} ELSE {}) :
            /\ collection' =
                 certificate_update_of(collection, disk, m, certificate_calls[t].project_title,
                                       certificate_calls[t].data).collection
            /\ response' =
                 certificate_update_of(collection, disk, m, certificate_calls[t].project_title,
                                       certificate_calls[t].data).response
            /\ applied' = Append(applied, [thread |-> t, matched |-> m])
        /\ certificate_calls' =
             [certificate_calls EXCEPT ![t] = [@ EXCEPT !.pc = "idle", !.status = response'.status]]
        /\ request' = [op |-> "upload_certificate", thread |-> t,
                       project_title |-> certificate_calls[t].project_title,
                       user |-> certificate_calls[t].user_email]
    /\ UNCHANGED <<renormalized, now, service, active_connections, sockets>>

NextCertificates == CertificatePrepare \/ CertificateUpdate

SpecCertificates == InitCertificates /\ [][NextCertificates]_vars

(***************************************************************************)
(* Properties of concurrent certificate uploads                            *)
(***************************************************************************)
\* both requests have been answered
BothAnswered ==
    /\ Len(applied) = Cardinality(Threads)
    /\ \A t \in Threads : certificate_calls[t].pc = "idle" /\ certificate_calls[t].status # 0

\* the certificate of the project that the update applied last was matched to
LastCertificate ==
    LET doc == collection[applied[Len(applied)].matched]
    IN doc["projects"].list[matched_position(doc, Title1)].dict["certificate"]

\* C27: for two concurrent upload_project_certificate requests of one caller
\* for one project title, in every interleaving the last write wins: after
\* both complete, the project's certificate equals in full (file_name,
\* file_path, uploaded_at) the data of the request whose update the store
\* applied last, never a mixture of the two
C27_LastWriteWins ==
    BothAnswered
        => /\ applied[Len(applied)].matched # 0
           /\ LastCertificate = certificate_calls[applied[Len(applied)].thread].data

\* both requests were answered with 200 after updating one project, and the
\* update applied last is of the request that was prepared first
C27_Witness ==
    /\ BothAnswered
    /\ \A t \in Threads : certificate_calls[t].status = 200
    /\ applied[1].matched = applied[2].matched
    /\ certificate_calls[applied[1].thread].data # certificate_calls[applied[2].thread].data
    /\ certificate_calls[applied[2].thread].data.dict["uploaded_at"].num
         < certificate_calls[applied[1].thread].data.dict["uploaded_at"].num

(***************************************************************************)
(* Properties of get_filtered_resumes: the count                           *)
(***************************************************************************)
HasLocationAmong(doc, locations) ==
    FieldPath(doc, <<"personal_information", "location">>) \in locations

HasDegreeAmong(doc, degrees) ==
    \E i \in 1..ListCount(doc, <<"education">>) :
        /\ IsDict(doc["education"].list[i])
        /\ "degree" \in DOMAIN doc["education"].list[i].dict
        /\ doc["education"].list[i].dict["degree"] \in degrees

\* the caller's records that satisfy the filters of the request and its
\* score range
FilterMatches ==
    {k \in 1..Len(collection) :
        /\ collection[k]["uploaded_by"] = request.user
        /\ request.filters.skills # {} => HasSkillAmong(collection[k], request.filters.skills)
        /\ request.filters.locations # {}
              => HasLocationAmong(collection[k], request.filters.locations)
        /\ request.filters.education # {}
              => HasDegreeAmong(collection[k], request.filters.education)
        /\ request.filters.levels # {} => InLevels(collection[k], request.filters.levels)
        /\ ScoreWithin(collection[k], request.filters.score_min, request.filters.score_max)}

\* C29: total_matches of get_filtered_resumes is the number of the caller's
\* records that satisfy all applied filters and the score range, also when
\* that number is larger than `limit` (stated for the level names of the
\* handler's lookup)
C29_TotalNotTruncated ==
    (/\ Served("filtered_resumes")
     /\ response.status = 200
     /\ request.filters.levels \subseteq {"entry", "mid", "senior"})
        => response.total_matches = Cardinality(FilterMatches)

(***************************************************************************)
(* Properties of get_recruitment_metrics: the averages                     *)
(***************************************************************************)
\* the total of the list lengths at `path` over the records the request
\* filtered, divided by their number; 0 when there is none
AverageOver(path) ==
    IF response.matched = <<>> THEN Frac(0, 1)
    ELSE Frac(SumSeq([i \in 1..Len(response.matched) |-> ListCount(response.matched[i], path)]),
              Len(response.matched))

\* C30: average_skills_per_resume of get_recruitment_metrics is the total
\* number of skills over all filtered resumes divided by the number of
\* filtered resumes, average_experience_per_resume likewise for experience
\* entries, for every distribution of the uploads over days, and both are 0
\* when no resume matches
C30_AveragesPerResume ==
    (Served("recruitment_metrics") /\ response.status = 200)
        => /\ response.average_skills_per_resume
                = AverageOver(<<"professional_summary", "skills">>)
           /\ response.average_experience_per_resume = AverageOver(<<"experience">>)

====
